---------------------------- MODULE Spec2Model ----------------------------
(***************************************************************************)
(* A model of the lfc-ticket-parser change-detection and consolidation     *)
(* pipeline: Sale, Fixture, the DynamoDB sync protocol, the Backup ledger  *)
(* and the Email event consolidator.                                       *)
(*                                                                         *)
(* Strings are sequences of lexemes.  A lexeme is one punctuation mark,    *)
(* one blank, one digit, or one whole alphabetic word; none of the         *)
(* program's patterns looks inside a word, so substring tests and regular  *)
(* expressions behave on lexemes as they do on characters.                 *)
(*                                                                         *)
(* A Date is a number of clock ticks (TicksPerSecond ticks to the second,  *)
(* SecondsPerMinute seconds to the minute), or NullDate (null) or          *)
(* InvalidDate (a Date object whose time value is NaN).                    *)
(***************************************************************************)
EXTENDS Integers, Sequences, FiniteSets, TLC

VARIABLES
    fixture,        \* the live Fixture handed to Client.sync
    table,          \* the fixtures table: a set of items {Fixture, Sales}
    now,            \* the wall clock, in ticks
    pc,             \* where DynamoDB.sync stands
    existing,       \* sync's local `existing`: <<>> is null, <<json>> a value
    readOk,         \* whether sync's get resolved (FALSE: it rejected)
    requests,       \* the write commands sync has sent to the store, in order
    writeOk,        \* the store's answer to sync's write: "none", "ok", "failed"
    result,         \* what the sync promise settled to: "none" while pending
    heap,           \* the event objects: reference -> {title, start, ...}
    given,          \* the events as they were when handed over, by position
    events,         \* the event list handed to Email.removeDuplicates (references)
    cleansed,       \* removeDuplicates' accumulator
    e,              \* removeDuplicates' loop index (0-based, as in the code)
    rd,             \* where removeDuplicates stands
    backupTable,    \* the backup table: a set of items {Date, Events, Attempts}
    clock,          \* the present moment, as TicketParser.parse reads it
    started,        \* how many times TicketParser.parse has been started
    parse,          \* TicketParser.parse: its position and its locals
    pending,        \* the store requests in flight: a backup put, a reset
    site,           \* what the club's website serves while the parser runs
    fixtures,       \* the FixtureList: the index html and the Fixtures found
    email,          \* the Email: the events it kept and what it handed to SMTP
    merging,        \* a Backup.merge call: both event arrays and the loop index
    call            \* a method called on its own: what it was given and what it answered

vars == <<fixture, table, now, pc, existing, readOk, requests, writeOk, result,
          heap, given, events, cleansed, e, rd,
          backupTable, clock, started, parse, pending,
          site, fixtures, email, merging, call>>

syncVars == <<fixture, table, now, pc, existing, readOk, requests, writeOk, result>>
mergeVars == <<heap, given, events, cleansed, e, rd>>
runVars == <<backupTable, clock, started, parse, pending, site, fixtures, email, merging, call>>

----------------------------------------------------------------------------
(* Bounds and scaled clock units *)

TicksPerSecond == 2
SecondsPerMinute == 2
MaxLiveSales == 2
MaxStoredSales == 2
MaxEvents == 3

TicksPerMinute == TicksPerSecond * SecondsPerMinute

NullDate == -1
InvalidDate == -2
InvalidDateText == -2

----------------------------------------------------------------------------
(* String primitives on lexeme sequences *)

includes(s, sub) ==
    \E i \in 0..(Len(s) - Len(sub)) : SubSeq(s, i + 1, i + Len(sub)) = sub

startsWith(s, p) == Len(p) <= Len(s) /\ SubSeq(s, 1, Len(p)) = p

----------------------------------------------------------------------------
(* Dates *)

\* Date.toString(): rendered to the second, milliseconds dropped; an invalid
\* Date renders as the text "Invalid Date".
DateToString(d) ==
    IF d = InvalidDate THEN InvalidDateText ELSE d \div TicksPerSecond

\* new Date(text): the instant the text names, or an invalid Date.
NewDate(text) ==
    IF text < 0 THEN InvalidDate ELSE text * TicksPerSecond

\* getFullYear/getMonth/getDate/getHours/getMinutes taken together: the
\* minute the instant falls in.  Only called on a non-null Date.
MinuteOf(d) == d \div TicksPerMinute

\* a < b on Date objects: a comparison with NaN is false.
DateLess(a, b) == a # InvalidDate /\ b # InvalidDate /\ a < b

----------------------------------------------------------------------------
(* Sale *)

PENDING == "PENDING"
AVAILABLE == "AVAILABLE"
ENDED == "ENDED"

Sale(description, status, date) ==
    [description |-> description, status |-> status, date |-> date]

\* Mutant: hospitality sales pass.
isValidWithHospitality(sale) ==
    /\ sale.status = PENDING
    /\ sale.date # NullDate
    /\ ~startsWith(sale.description, <<"Local">>)
    /\ ~includes(sale.description, <<"ambulant">>)

isValid(sale) ==
    /\ sale.status = PENDING
    /\ sale.date # NullDate
    /\ ~startsWith(sale.description, <<"Local">>)
    /\ ~includes(sale.description, <<"ambulant">>)
    /\ ~includes(sale.description, <<"Hospitality">>)

\* Nullable<string>: <<>> is null, <<json>> the two-field object.
SaleGetJson(sale) ==
    IF ~isValid(sale) THEN <<>>
    ELSE <<[description |-> sale.description, date |-> DateToString(sale.date)]>>

SaleEquals(this, sale) ==
    LET description == (this.description = sale.description)
        status == (this.status = sale.status)
        bothNull == this.date = NullDate /\ sale.date = NullDate
        bothDates == /\ this.date # NullDate /\ sale.date # NullDate
                     /\ this.date # InvalidDate /\ sale.date # InvalidDate
        date == bothNull \/ (bothDates /\ MinuteOf(this.date) = MinuteOf(sale.date))
        time == bothNull \/ (bothDates /\ MinuteOf(this.date) = MinuteOf(sale.date))
    IN  description /\ status /\ date /\ time

----------------------------------------------------------------------------
(* Fixture *)

\* String.toLowerCase on the words the model uses.
LowerLexeme(x) ==
    CASE x = "Chelsea" -> "chelsea"
      [] x = "Brighton" -> "brighton"
      [] x = "Hove" -> "hove"
      [] x = "Albion" -> "albion"
      [] x = "Premier" -> "premier"
      [] x = "League" -> "league"
      [] x = "FA" -> "fa"
      [] x = "Cup" -> "cup"
      [] x = "H" -> "h"
      [] x = "A" -> "a"
      [] x = "N" -> "n"
      [] x = "U" -> "u"
      [] x = "Women" -> "women"
      [] x = "Ladies" -> "ladies"
      [] OTHER -> x

toLowerCase(s) == [i \in 1..Len(s) |-> LowerLexeme(s[i])]

\* replace(/&amp; /g, '')
RECURSIVE StripAmp(_)
StripAmp(s) ==
    IF s = <<>> THEN <<>>
    ELSE IF Len(s) >= 2 /\ s[1] = "&amp;" /\ s[2] = " " THEN StripAmp(SubSeq(s, 3, Len(s)))
    ELSE <<Head(s)>> \o StripAmp(Tail(s))

\* replace(/ /g, '-')
Hyphenate(s) == [i \in 1..Len(s) |-> IF s[i] = " " THEN "-" ELSE s[i]]

\* The constructor: ko is the kick-off's [year, month], month counted from 0.
\* The html is '' (<<>>) until download fills it.
Fixture(url, opposition, venue, competition, ko) ==
    LET season == ko.year - (IF ko.month < 5 THEN 1 ELSE 0)
    IN  [id |-> Hyphenate(StripAmp(toLowerCase(
                    <<ToString(season), "-">> \o opposition \o <<"-", venue, "-">>
                        \o competition))),
         season |-> season,
         url |-> url,
         opposition |-> opposition,
         venue |-> venue,
         competition |-> competition,
         ko |-> ko,
         html |-> <<>>,
         sales |-> <<>>,
         changed |-> TRUE]

getMatch(f) ==
    f.opposition \o <<" ", "(", f.venue, ")", " ", "-", " ">> \o f.competition
        \o <<" ", "(", ToString(f.season), "-", ToString((f.season + 1) % 100), ")">>

getActiveSaleCount(f) ==
    Cardinality({i \in 1..Len(f.sales) : isValid(f.sales[i])})

\* The text JSON.parse cannot read back: a quote or a backslash copied
\* unescaped into the hand-built JSON.
BreaksJson(s) == \E i \in 1..Len(s) : s[i] \in {"\"", "\\"}

RECURSIVE ValidSalesJson(_)
ValidSalesJson(sales) ==
    IF sales = <<>> THEN <<>>
    ELSE SaleGetJson(Head(sales)) \o ValidSalesJson(Tail(sales))

\* Nullable<string>: <<>> is null, <<text>> the JSON text, kept as the
\* structure JSON.parse reads from it plus whether it parses at all.
FixtureGetJson(f) ==
    IF getActiveSaleCount(f) = 0 THEN <<>>
    ELSE LET sales == ValidSalesJson(f.sales)
         IN  <<[malformed |-> \/ BreaksJson(f.id) \/ BreaksJson(getMatch(f))
                              \/ \E i \in 1..Len(sales) : BreaksJson(sales[i].description),
                id |-> f.id,
                match |-> getMatch(f),
                sales |-> sales]>>

\* new Sale(json.description, Status.PENDING, new Date(json.date))
StoredSale(j) == Sale(j.description, PENDING, NewDate(j.date))

\* Mutant: the first loop matches on the description alone.
LiveSalesFoundByDescription(f, json) ==
    \A s1 \in 1..Len(f.sales) :
        isValid(f.sales[s1]) =>
            \E s2 \in 1..Len(json.sales) :
                f.sales[s1].description = json.sales[s2].description

\* First loop of Fixture.equals: every valid live sale is found in the JSON.
LiveSalesFound(f, json) ==
    \A s1 \in 1..Len(f.sales) :
        isValid(f.sales[s1]) =>
            \E s2 \in 1..Len(json.sales) :
                SaleEquals(f.sales[s1], StoredSale(json.sales[s2]))

\* Mutant: the second loop does not excuse a stored sale whose date has passed.
StoredSalesAllFound(f, json, today) ==
    \A s1 \in 1..Len(json.sales) :
        \E s2 \in 1..Len(f.sales) :
            SaleEquals(f.sales[s2], StoredSale(json.sales[s1]))

\* Second loop of Fixture.equals: a stored sale found in no live sale is
\* excused only when today is not before its date.
StoredSalesFoundOrPassed(f, json, today) ==
    \A s1 \in 1..Len(json.sales) :
        LET found == \E s2 \in 1..Len(f.sales) :
                         SaleEquals(f.sales[s2], StoredSale(json.sales[s1]))
        IN  ~found => ~DateLess(today, NewDate(json.sales[s1].date))

\* Fixture.equals on a text JSON.parse accepts.
FixtureEquals(f, json, today) ==
    LiveSalesFound(f, json) /\ StoredSalesFoundOrPassed(f, json, today)

----------------------------------------------------------------------------
(* DynamoDB: the fixtures table and Client.sync *)

\* What GetCommand finds under the key: null (<<>>) when there is no item.
Get(tbl, f) ==
    IF \E item \in tbl : item.Fixture = f.id
    THEN (CHOOSE item \in tbl : item.Fixture = f.id).Sales
    ELSE <<>>

\* PutCommand and UpdateCommand ('SET Sales = :json') both leave one item
\* under the key, holding fixture.getJson().
Written(tbl, f) ==
    {item \in tbl : item.Fixture # f.id}
        \cup {[Fixture |-> f.id, Sales |-> FixtureGetJson(f)]}

\* Mutant: the new fixture is sent as an update.
PutRequestAsUpdate(f) == [op |-> "update", key |-> f.id, json |-> FixtureGetJson(f)]

PutRequest(f) == [op |-> "put", key |-> f.id, json |-> FixtureGetJson(f)]

\* Mutant: the update carries the fingerprint that was read, not the current one.
UpdateRequestStale(f) == [op |-> "update", key |-> f.id, json |-> existing]

UpdateRequest(f) == [op |-> "update", key |-> f.id, json |-> FixtureGetJson(f)]

setChanged(f, changed) == [f EXCEPT !.changed = changed]

\* Mutant: a failed write is not reported.
WriteOutcomeIgnored(ok) == "true"

\* put and update: true when the send resolved, false from the catch; sync
\* returns false on a false and true otherwise.
WriteOutcome(ok) == IF ok THEN "true" ELSE "false"

\* Mutant: a failed read is swallowed and taken for "no item".
SyncGetSwallowed ==
    /\ pc = "start"
    /\ \E ok \in BOOLEAN :
        /\ existing' = IF ok THEN Get(table, fixture) ELSE <<>>
        /\ readOk' = ok
    /\ pc' = "compare"
    /\ UNCHANGED <<fixture, result, table, now, requests, writeOk>>
    /\ UNCHANGED <<mergeVars, runVars>>

\* sync, up to `existing = await this.get(fixture)`: the read resolves or
\* rejects; on a rejection the catch marks the fixture changed.
SyncGet ==
    /\ pc = "start"
    /\ \E ok \in BOOLEAN :
        IF ok
        THEN /\ existing' = Get(table, fixture)
             /\ readOk' = TRUE
             /\ pc' = "compare"
             /\ UNCHANGED <<fixture, result>>
        ELSE /\ fixture' = setChanged(fixture, TRUE)
             /\ readOk' = FALSE
             /\ result' = "false"
             /\ pc' = "done"
             /\ UNCHANGED existing
    /\ UNCHANGED <<table, now, requests, writeOk>>
    /\ UNCHANGED <<mergeVars, runVars>>

\* sync, from the test of `existing` to the next await (or the return).
SyncCompare ==
    /\ pc = "compare"
    /\ IF existing = <<>>
       THEN IF getActiveSaleCount(fixture) > 0
            THEN /\ fixture' = setChanged(fixture, TRUE)
                 /\ requests' = Append(requests, PutRequest(fixture))
                 /\ pc' = "put"
                 /\ UNCHANGED result
            ELSE /\ fixture' = setChanged(fixture, FALSE)
                 /\ result' = "true"
                 /\ pc' = "done"
                 /\ UNCHANGED requests
       ELSE IF existing[1].malformed
            THEN \* JSON.parse throws inside equals; sync does not catch it
                 /\ result' = "threw"
                 /\ pc' = "done"
                 /\ UNCHANGED <<fixture, requests>>
            ELSE IF ~FixtureEquals(fixture, existing[1], now)
                 THEN /\ fixture' = setChanged(fixture, TRUE)
                      /\ requests' = Append(requests, UpdateRequest(fixture))
                      /\ pc' = "update"
                      /\ UNCHANGED result
                 ELSE /\ fixture' = setChanged(fixture, FALSE)
                      /\ result' = "true"
                      /\ pc' = "done"
                      /\ UNCHANGED requests
    /\ UNCHANGED <<table, now, existing, readOk, writeOk>>
    /\ UNCHANGED <<mergeVars, runVars>>

\* `await this.put(fixture)` settles: put catches a failed send and
\* returns false.
PutSettle ==
    /\ pc = "put"
    /\ \E ok \in BOOLEAN :
        /\ table' = IF ok THEN Written(table, fixture) ELSE table
        /\ writeOk' = IF ok THEN "ok" ELSE "failed"
        /\ result' = WriteOutcome(ok)
    /\ pc' = "done"
    /\ UNCHANGED <<fixture, now, existing, readOk, requests>>
    /\ UNCHANGED <<mergeVars, runVars>>

\* `await this.update(fixture)` settles likewise.
UpdateSettle ==
    /\ pc = "update"
    /\ \E ok \in BOOLEAN :
        /\ table' = IF ok THEN Written(table, fixture) ELSE table
        /\ writeOk' = IF ok THEN "ok" ELSE "failed"
        /\ result' = WriteOutcome(ok)
    /\ pc' = "done"
    /\ UNCHANGED <<fixture, now, existing, readOk, requests>>
    /\ UNCHANGED <<mergeVars, runVars>>

----------------------------------------------------------------------------
(* The sync specification: one fixture, any page content, any stored item *)

Minute(m) == m * TicksPerMinute

MembersSale == <<"Members", " ", "Sale">>
LocalSale == <<"Local", " ", "General", " ", "Sale">>
AmbulantSale == <<"Members", " ", "ambulant", " ", "Sale">>
HospitalitySale == <<"Hospitality">>

ValidLiveSales ==
    {Sale(MembersSale, PENDING, d) :
        d \in {Minute(1), Minute(2), Minute(2) + TicksPerSecond + 1,
               Minute(3), InvalidDate}}

InvalidLiveSales ==
    {Sale(MembersSale, ENDED, Minute(2)),
     Sale(MembersSale, AVAILABLE, Minute(2)),
     Sale(MembersSale, PENDING, NullDate),
     Sale(LocalSale, PENDING, Minute(2)),
     Sale(AmbulantSale, PENDING, Minute(2)),
     Sale(HospitalitySale, PENDING, Minute(2))}

LiveSaleUniverse == ValidLiveSales \cup InvalidLiveSales

StoredSaleUniverse ==
    {[description |-> MembersSale, date |-> t] :
        t \in {DateToString(Minute(1)), DateToString(Minute(2)),
               DateToString(Minute(3)), InvalidDateText}}
    \cup {[description |-> LocalSale, date |-> DateToString(Minute(3))]}

SeqsUpTo(S, n) == UNION {[1..k -> S] : k \in 0..n}

TheFixture ==
    Fixture("/tickets/tickets-availability/liverpool-fc-v-chelsea", <<"Chelsea">>, "H",
            <<"Premier", " ", "League">>,
            [year |-> 2024, month |-> 7])

MalformedJson ==
    [malformed |-> TRUE, id |-> TheFixture.id, match |-> getMatch(TheFixture),
     sales |-> <<>>]

StoredJsonUniverse ==
    {[malformed |-> FALSE, id |-> TheFixture.id, match |-> getMatch(TheFixture),
      sales |-> ss] : ss \in SeqsUpTo(StoredSaleUniverse, MaxStoredSales)}
    \cup {MalformedJson}

InitMerge ==
    /\ heap = <<>>
    /\ given = <<>>
    /\ events = <<>>
    /\ cleansed = <<>>
    /\ e = 0
    /\ rd = "off"

InitRunIdle ==
    /\ backupTable = {}
    /\ clock = <<>>
    /\ started = 0
    /\ parse = [pc |-> "off"]
    /\ pending = <<>>
    /\ site = <<>>
    /\ fixtures = <<>>
    /\ email = <<>>
    /\ merging = <<>>
    /\ call = <<>>

InitSync ==
    /\ fixture \in {[TheFixture EXCEPT !.sales = ss] :
                        ss \in SeqsUpTo(LiveSaleUniverse, MaxLiveSales)}
    /\ table \in {{}} \cup {{[Fixture |-> TheFixture.id, Sales |-> <<j>>]} :
                               j \in StoredJsonUniverse}
    /\ now = Minute(2)
    /\ pc = "start"
    /\ existing = <<>>
    /\ readOk = TRUE
    /\ requests = <<>>
    /\ writeOk = "none"
    /\ result = "none"
    /\ InitMerge
    /\ InitRunIdle

NextSync == SyncGet \/ SyncCompare \/ PutSettle \/ UpdateSettle

SpecSync == InitSync /\ [][NextSync]_vars

----------------------------------------------------------------------------
(* Email.removeDuplicates: the regular expressions, on lexeme sequences *)

Min(S) == CHOOSE x \in S : \A y \in S : x <= y

Max(S) == CHOOSE x \in S : \A y \in S : x >= y

From(s, i) == SubSeq(s, i, Len(s))

At(s, i, p) == i >= 1 /\ i + Len(p) - 1 <= Len(s) /\ SubSeq(s, i, i + Len(p) - 1) = p

IsDigit(x) == x \in {"0", "1", "2", "3", "4", "5", "6", "7", "8", "9"}

NoMatch == [ok |-> FALSE, g1 |-> <<>>, g2 |-> <<>>, g3 |-> <<>>, g4 |-> <<>>,
            g5 |-> <<>>, g6 |-> <<>>]

\* \s\(H\)\s:\s
HomeSeparator == <<" ", "(", "H", ")", " ", ":", " ">>

\* \)\s:\s
BulkSeparator == <<")", " ", ":", " ">>

\* /^(.+?)\s\(H\)\s:\s(.+?)(\((.*?)\))?$/ : group 1 is the shortest prefix
\* followed by the separator with something after it; group 2 is the shortest
\* stretch after which "(...)" runs to the end, or else everything.  An
\* unmatched group 4 and an empty one read alike in every use.
MatchHomeTitle(s) ==
    LET starts == {i \in 1..Len(s) :
                      At(s, i + 1, HomeSeparator) /\ i + Len(HomeSeparator) < Len(s)}
    IN  IF starts = {} THEN NoMatch
        ELSE LET i == Min(starts)
                 r == From(s, i + Len(HomeSeparator) + 1)
                 n == Len(r)
                 k == Min({j \in 1..n :
                              j = n \/ (j + 2 <= n /\ r[j + 1] = "(" /\ r[n] = ")")})
             IN  [NoMatch EXCEPT !.ok = TRUE,
                                 !.g1 = SubSeq(s, 1, i),
                                 !.g2 = SubSeq(r, 1, k),
                                 !.g3 = SubSeq(r, k + 1, n),
                                 !.g4 = SubSeq(r, k + 2, n - 1)]

\* /^Bulk Sale \((.+?)\)\s:\s(.*?)\((.+?)\)$/
MatchBulkTitle(s) ==
    LET head == <<"Bulk", " ", "Sale", " ", "(">>
        tailOk(r) == \E j \in 0..Len(r) :
                         j + 3 <= Len(r) /\ r[j + 1] = "(" /\ r[Len(r)] = ")"
        ends == {i \in (Len(head) + 1)..Len(s) :
                    /\ At(s, i + 1, BulkSeparator)
                    /\ tailOk(From(s, i + Len(BulkSeparator) + 1))}
    IN  IF ~startsWith(s, head) \/ ends = {} THEN NoMatch
        ELSE LET i == Min(ends)
                 r == From(s, i + Len(BulkSeparator) + 1)
                 n == Len(r)
                 k == Min({j \in 0..n : j + 3 <= n /\ r[j + 1] = "(" /\ r[n] = ")"})
             IN  [NoMatch EXCEPT !.ok = TRUE,
                                 !.g1 = SubSeq(s, Len(head) + 1, i),
                                 !.g2 = SubSeq(r, 1, k),
                                 !.g3 = SubSeq(r, k + 2, n - 1)]

\* replace(/\s{2,}/, ' '): the first run of two or more blanks becomes one.
SqueezeBlanks(s) ==
    LET runs == {i \in 1..Len(s) : At(s, i, <<" ", " ">>)}
    IN  IF runs = {} THEN s
        ELSE LET i == Min(runs)
                 j == Max({m \in i..Len(s) : \A x \in i..m : s[x] = " "})
             IN  SubSeq(s, 1, i) \o From(s, j + 1)

\* (\d{1,2}\+)? tried at position q of r: the length it takes (3, 2 or 0).
TierLength(r, q) ==
    IF q + 2 <= Len(r) /\ IsDigit(r[q]) /\ IsDigit(r[q + 1]) /\ r[q + 2] = "+" THEN 3
    ELSE IF q + 1 <= Len(r) /\ IsDigit(r[q]) /\ r[q + 1] = "+" THEN 2
    ELSE 0

RegistrationFrom(r, q) == \E x \in q..Len(r) : r[x] = "Registration"

\* [^0-9]+ can take the first a lexemes of r and leave a "Registration" behind it.
RegistrationPrefix(r, a) ==
    (\A x \in 1..a : ~IsDigit(r[x])) /\ RegistrationFrom(r, a + 1)

\* /^(.+?)\s\(H\)\s:\s([^0-9]+)((\d{1,2}\+)?)(.*?)Registration(?:\s\()?(\d{1,2}\+)?.*?$/
MatchRegistrationTitle(s) ==
    LET rest(i) == From(s, i + Len(HomeSeparator) + 1)
        starts == {i \in 1..Len(s) :
                      /\ At(s, i + 1, HomeSeparator)
                      /\ \E a \in 1..Len(rest(i)) : RegistrationPrefix(rest(i), a)}
    IN  IF starts = {} THEN NoMatch
        ELSE LET i == Min(starts)
                 r == rest(i)
                 n == Len(r)
                 a == Max({x \in 1..n : RegistrationPrefix(r, x)})
                 b == IF RegistrationFrom(r, a + TierLength(r, a + 1) + 1)
                      THEN TierLength(r, a + 1) ELSE 0
                 pos == Min({x \in (a + b + 1)..n : r[x] = "Registration"})
                 q == IF At(r, pos + 1, <<" ", "(">>) THEN pos + 3 ELSE pos + 1
             IN  [NoMatch EXCEPT !.ok = TRUE,
                                 !.g1 = SubSeq(s, 1, i),
                                 !.g2 = SubSeq(r, 1, a),
                                 !.g3 = SubSeq(r, a + 1, a + b),
                                 !.g5 = SubSeq(r, a + b + 1, pos - 1),
                                 !.g6 = SubSeq(r, q, q + TierLength(r, q) - 1)]

\* /^Registration \((.+?)\)\s:\s(.*?)\((.*?)\)$/
MatchMergedRegistrationTitle(s) ==
    LET head == <<"Registration", " ", "(">>
        tailOk(r) == \E j \in 0..Len(r) :
                         j + 2 <= Len(r) /\ r[j + 1] = "(" /\ r[Len(r)] = ")"
        ends == {i \in (Len(head) + 1)..Len(s) :
                    /\ At(s, i + 1, BulkSeparator)
                    /\ tailOk(From(s, i + Len(BulkSeparator) + 1))}
    IN  IF ~startsWith(s, head) \/ ends = {} THEN NoMatch
        ELSE LET i == Min(ends)
                 r == From(s, i + Len(BulkSeparator) + 1)
                 n == Len(r)
                 k == Min({j \in 0..n : j + 2 <= n /\ r[j + 1] = "(" /\ r[n] = ")"})
             IN  [NoMatch EXCEPT !.ok = TRUE,
                                 !.g1 = SubSeq(s, Len(head) + 1, i),
                                 !.g2 = SubSeq(r, 1, k),
                                 !.g3 = SubSeq(r, k + 2, n - 1)]

\* extractOpposition: match![1] on a title the pattern does not match throws.
extractOpposition(title) ==
    LET match == MatchHomeTitle(title)
    IN  [threw |-> ~match.ok, opposition |-> match.g1, criteria |-> match.g4]

\* ', ' + criteria unless the original title already includes the criteria.
CriteriaSuffix(originalTitle, criteria) ==
    IF includes(originalTitle, criteria) THEN <<>> ELSE <<",", " ">> \o criteria

\* tidySale and the title.replace(sr.search, sr.replace) that follows it.
tidySale(originalTitle, currentTitle) ==
    LET data == extractOpposition(currentTitle)
        criteria == CriteriaSuffix(originalTitle,
                        IF data.criteria # <<>> THEN data.criteria ELSE <<"General">>)
        bulk == startsWith(originalTitle, <<"Bulk", " ", "Sale">>)
        m == IF bulk THEN MatchBulkTitle(originalTitle)
             ELSE MatchHomeTitle(originalTitle)
    IN  IF data.threw \/ ~m.ok THEN originalTitle
        ELSE <<"Bulk", " ", "Sale", " ", "(">> \o m.g1 \o <<",", " ">>
                 \o data.opposition \o <<")", " ", ":", " ">> \o m.g2 \o <<"(">>
                 \o (IF bulk THEN m.g3 ELSE m.g4) \o criteria \o <<")">>

\* tidyRegistration and the title.replace(sr.search, sr.replace) that follows it.
tidyRegistration(originalTitle, currentTitle) ==
    LET data == extractOpposition(currentTitle)
        match == MatchRegistrationTitle(currentTitle)
        index == IF match.ok /\ match.g3 = <<>> /\ match.g6 # <<>> THEN 6 ELSE 3
        found == IF match.ok /\ match.g3 # <<>> THEN match.g3
                 ELSE IF match.ok /\ match.g6 # <<>> THEN match.g6
                 ELSE <<"General">>
        criteria == CriteriaSuffix(originalTitle, found)
        merged == startsWith(originalTitle, <<"Registration">>)
        m == IF merged THEN MatchMergedRegistrationTitle(originalTitle)
             ELSE MatchRegistrationTitle(originalTitle)
        oppositions == IF includes(originalTitle, data.opposition) THEN m.g1
                       ELSE m.g1 \o <<",", " ">> \o data.opposition
    IN  IF data.threw \/ ~m.ok THEN originalTitle
        ELSE <<"Registration", " ", "(">> \o oppositions \o <<")", " ", ":", " ">>
                 \o (IF merged THEN m.g2 \o <<"(">> \o m.g3
                     ELSE m.g2 \o m.g5 \o <<"(">> \o (IF index = 6 THEN m.g6 ELSE m.g3))
                 \o criteria \o <<")">>

\* The title cleansed[u] is given when events[e] shares its start.
MergedTitle(originalTitle, currentTitle) ==
    SqueezeBlanks(IF includes(originalTitle, <<"Registration">>)
                  THEN tidyRegistration(originalTitle, currentTitle)
                  ELSE tidySale(originalTitle, currentTitle))

----------------------------------------------------------------------------
(* Email.removeDuplicates *)

\* Sale.getCalendarEvent with the title Fixture.getCalendarEvents gives it.
CalendarEvent(opposition, venue, description, start) ==
    [productId |-> "lfctickets/ics",
     title |-> opposition \o <<" ", "(", venue, ")", " ", ":", " ">> \o description,
     start |-> start,
     duration |-> [minutes |-> 60],
     busyStatus |-> "BUSY"]

\* The guard on an empty array, and `cleansed = [events[0]]`.
RemoveDuplicatesBegin ==
    /\ rd = "start"
    /\ IF Len(events) = 0
       THEN cleansed' = events /\ rd' = "done" /\ e' = e
       ELSE cleansed' = <<events[1]>> /\ rd' = "loop" /\ e' = 1
    /\ UNCHANGED <<heap, given, events>>
    /\ UNCHANGED <<syncVars, runVars>>

\* One turn of the outer loop: events[e] is tested against cleansed[0..] in
\* order until it is identical to one (dropped) or shares its start (merged
\* into it, in place); otherwise it is pushed.
RemoveDuplicatesStep ==
    /\ rd = "loop"
    /\ e < Len(events)
    /\ LET current == events[e + 1]
           hits == {u \in 1..Len(cleansed) :
                       \/ heap[current] = heap[cleansed[u]]
                       \/ heap[current].start = heap[cleansed[u]].start}
       IN  IF hits = {}
           THEN /\ cleansed' = Append(cleansed, current)
                /\ e' = e + 1
                /\ UNCHANGED <<heap, rd>>
           ELSE LET u == Min(hits)
                IN  IF heap[current] = heap[cleansed[u]]
                    THEN /\ e' = e + 1
                         /\ UNCHANGED <<heap, cleansed, rd>>
                    ELSE IF extractOpposition(heap[current].title).threw
                    THEN /\ rd' = "threw"
                         /\ UNCHANGED <<heap, cleansed, e>>
                    ELSE /\ heap' = [heap EXCEPT ![cleansed[u]].title =
                                        MergedTitle(@, heap[current].title)]
                         /\ e' = e + 1
                         /\ UNCHANGED <<cleansed, rd>>
    /\ UNCHANGED <<given, events>>
    /\ UNCHANGED <<syncVars, runVars>>

\* The loop ends and cleansed is returned.
RemoveDuplicatesReturn ==
    /\ rd = "loop"
    /\ e = Len(events)
    /\ rd' = "done"
    /\ UNCHANGED <<heap, given, events, cleansed, e>>
    /\ UNCHANGED <<syncVars, runVars>>

----------------------------------------------------------------------------
(* The consolidator specification: any short list of sale events *)

Chelsea == <<"Chelsea">>
Brighton == <<"Brighton", " ", "and", " ", "Hove", " ", "Albion">>

MembersSale13 == <<"Members", " ", "Sale", " ", "(", "1", "3", "+", ")">>
MembersSale3 == <<"Members", " ", "Sale", " ", "(", "3", "+", ")">>

Start1 == <<2027, 1, 8, 8, 15>>
Start2 == <<2027, 1, 9, 8, 15>>

SaleEventUniverse ==
    {CalendarEvent(o, "H", d, Start1) :
        o \in {Chelsea, Brighton}, d \in {MembersSale13, MembersSale3, MembersSale}}
    \cup {CalendarEvent(Chelsea, "H", MembersSale13, Start2)}

\* A list of n event objects; an entry may be the very object of an earlier
\* entry (the same reference pushed twice).
EventLists(n, universe) ==
    {<<h, ev>> \in [1..n -> universe] \X [1..n -> 1..n] :
        \A i \in 1..n :
            /\ ev[i] <= i
            /\ ev[i] < i => (ev[ev[i]] = ev[i] /\ h[i] = h[ev[i]])}

InitSyncIdle ==
    /\ fixture = TheFixture
    /\ table = {}
    /\ now = Minute(2)
    /\ pc = "off"
    /\ existing = <<>>
    /\ readOk = TRUE
    /\ requests = <<>>
    /\ writeOk = "none"
    /\ result = "none"

InitSales ==
    /\ \E n \in 0..MaxEvents :
        \E l \in EventLists(n, SaleEventUniverse) :
            /\ heap = l[1]
            /\ given = [i \in 1..n |-> l[1][l[2][i]]]
            /\ events = l[2]
    /\ cleansed = <<>>
    /\ e = 0
    /\ rd = "start"
    /\ InitSyncIdle
    /\ InitRunIdle

NextMerge == RemoveDuplicatesBegin \/ RemoveDuplicatesStep \/ RemoveDuplicatesReturn

SpecSales == InitSales /\ [][NextMerge]_vars

\* The registration events of one morning: each opposition with each tier.
MembersTicketSaleRegistration ==
    <<"Members", " ", "Ticket", " ", "Sale", " ", "Registration">>

RegistrationTiers == {<<>>, <<"1", "3", "+">>, <<"4", "+">>}

\* Fixture.find appends ' (<credits>+)' to the description of a tiered sale.
TieredRegistration(tier) ==
    IF tier = <<>> THEN MembersTicketSaleRegistration
    ELSE MembersTicketSaleRegistration \o <<" ", "(">> \o tier \o <<")">>

RegistrationEventUniverse ==
    {CalendarEvent(o, "H", TieredRegistration(t), Start1) :
        o \in {Chelsea, Brighton}, t \in RegistrationTiers}

InitRegistrations ==
    /\ \E n \in 0..MaxEvents :
        \E l \in EventLists(n, RegistrationEventUniverse) :
            /\ heap = l[1]
            /\ given = [i \in 1..n |-> l[1][l[2][i]]]
            /\ events = l[2]
    /\ cleansed = <<>>
    /\ e = 0
    /\ rd = "start"
    /\ InitSyncIdle
    /\ InitRunIdle

SpecRegistrations == InitRegistrations /\ [][NextMerge]_vars

----------------------------------------------------------------------------
(* Calendar dates, as the backup keys use them *)

\* A Date by its local-time fields; month counts from 0 as getMonth() does.
JSDate(year, month, date, hours, minutes) ==
    [year |-> year, month |-> month, date |-> date, hours |-> hours, minutes |-> minutes]

IsLeapYear(y) == (y % 4 = 0 /\ y % 100 # 0) \/ y % 400 = 0

DaysInMonth(y, m) ==
    IF m = 1 THEN (IF IsLeapYear(y) THEN 29 ELSE 28)
    ELSE IF m \in {3, 5, 8, 10} THEN 30 ELSE 31

\* A day of the month past the month's end rolls over into the next month.
MakeDay(d, y, m, dd) ==
    IF dd <= DaysInMonth(y, m) THEN [d EXCEPT !.year = y, !.month = m, !.date = dd]
    ELSE IF m = 11 THEN [d EXCEPT !.year = y + 1, !.month = 0, !.date = dd - DaysInMonth(y, m)]
    ELSE [d EXCEPT !.year = y, !.month = m + 1, !.date = dd - DaysInMonth(y, m)]

setFullYear(d, y) == MakeDay(d, y, d.month, d.date)
setMonth(d, m) == MakeDay(d, d.year, m, d.date)
setDate(d, dd) == MakeDay(d, d.year, d.month, dd)

\* a < b for two Dates.
DateBefore(a, b) ==
    LET fa == <<a.year, a.month, a.date, a.hours, a.minutes>>
        fb == <<b.year, b.month, b.date, b.hours, b.minutes>>
    IN  \E i \in 1..5 : fa[i] < fb[i] /\ \A j \in 1..(i - 1) : fa[j] = fb[j]

DigitChars == <<"0", "1", "2", "3", "4", "5", "6", "7", "8", "9">>

\* Number.toString(), a character at a time.
RECURSIVE NumberToString(_)
NumberToString(n) ==
    IF n < 10 THEN <<DigitChars[n + 1]>>
    ELSE NumberToString(n \div 10) \o <<DigitChars[(n % 10) + 1]>>

\* parseInt of a run of digit characters.
RECURSIVE parseInt(_)
parseInt(s) ==
    IF s = <<>> THEN 0
    ELSE 10 * parseInt(SubSeq(s, 1, Len(s) - 1))
            + (CHOOSE n \in 0..9 : DigitChars[n + 1] = s[Len(s)])

substring(s, from, to) == SubSeq(s, from + 1, Min({to, Len(s)}))

----------------------------------------------------------------------------
(* Backup *)

Backup(date, evs) == [date |-> date, events |-> evs]

formatDate(date) ==
    LET y == date.year
        m == date.month + 1
        d == date.date
    IN  NumberToString(y) \o (IF m < 10 THEN <<"0">> ELSE <<>>) \o NumberToString(m)
            \o (IF d < 10 THEN <<"0">> ELSE <<>>) \o NumberToString(d)

\* The Date starts as the present moment and has its year, month and day
\* set in turn.
parseDate(text, present) ==
    LET d1 == setFullYear(present, parseInt(substring(text, 0, 4)))
        d2 == setMonth(d1, parseInt(substring(text, 4, 6)) - 1)
    IN  setDate(d2, parseInt(substring(text, 6, Len(text))))

getKey(backup) == formatDate(backup.date)

isToday(backup, present) ==
    /\ backup.date.year = present.year
    /\ backup.date.month = present.month
    /\ backup.date.date = present.date

\* The events of `backup` are pushed unless this very object is among
\* this.events already; objects parsed from different items never are.
merge(this, backup) == [this EXCEPT !.events = this.events \o backup.events]

\* JSON.stringify and JSON.parse of an event list: the events are plain data.
toJson(backup) == backup.events

fromJson(date, json) == Backup(date, json)

----------------------------------------------------------------------------
(* DynamoDB.backup, restore and reset *)

BackupItem(date, backup) == [Date |-> date, Events |-> toJson(backup), Attempts |-> 1]

\* A Put replaces the item stored under the same key.
PutItem(tbl, item) == {i \in tbl : i.Date # item.Date} \cup {item}

DeleteItem(tbl, date) == {i \in tbl : i.Date # date}

\* The orders in which a scan may return the items.
ScanOrders(tbl) ==
    {o \in [1..Cardinality(tbl) -> tbl] : \A i, j \in 1..Cardinality(tbl) : o[i] = o[j] => i = j}

\* restore's loop, the first n updates resolving: each sets Attempts to one
\* more than was read.
AttemptsCounted(tbl, items, n) ==
    {IF \E k \in 1..n : items[k] = i THEN [i EXCEPT !.Attempts = i.Attempts + 1] ELSE i :
        i \in tbl}

Restored(items, present) ==
    [b \in 1..Len(items) |-> fromJson(parseDate(items[b].Date, present), items[b].Events)]

----------------------------------------------------------------------------
(* Fixture and FixtureList: download, find, the calendar events *)

MaxFixtures == 2

LiverpoolFC == <<"Liverpool", " ", "FC">>

\* replace('&amp; ', ''): the first occurrence only.
RECURSIVE StripFirstAmp(_)
StripFirstAmp(s) ==
    IF s = <<>> THEN <<>>
    ELSE IF Len(s) >= 2 /\ s[1] = "&amp;" /\ s[2] = " " THEN SubSeq(s, 3, Len(s))
    ELSE <<Head(s)>> \o StripFirstAmp(Tail(s))

\* replace('&amp;', 'and'): the first occurrence only.
RECURSIVE ReplaceAmp(_)
ReplaceAmp(s) ==
    IF s = <<>> THEN <<>>
    ELSE IF s[1] = "&amp;" THEN <<"and">> \o Tail(s)
    ELSE <<Head(s)>> \o ReplaceAmp(Tail(s))

\* Fixture.download: html is what the url served; a rejected fetch and an
\* empty body both leave it ''.  The boolean returned is html.length > 0.
FixtureDownload(f, served) == [f EXCEPT !.html = served]

\* The sanity check of find: the page's <title> names the two teams, the
\* opposition at home for an away fixture.
TitleMatches(f) ==
    LET title == f.html[1].title
        opposition == StripFirstAmp(f.opposition)
    IN  IF f.venue = "A"
        THEN title.home = opposition /\ title.away = LiverpoolFC
        ELSE title.home = LiverpoolFC /\ title.away = opposition

\* Mutant: find accepts any page that is not empty.
FixtureFindThrowsOnEmpty(f) == f.html = <<>>

\* Fixture.find throws on an empty html and on the page of another fixture.
FixtureFindThrows(f) == f.html = <<>> \/ ~TitleMatches(f)

\* Fixture.find on a page it accepts: one Sale pushed for each row, the rows
\* given as find reads them (description, status, date).
FixtureFind(f) == [f EXCEPT !.sales = @ \o f.html[1].sales]

\* The local-time fields of an instant of the tick clock; tick 0 is 08:58 on
\* 1 March 2027.
LocalFields(d) ==
    LET m == MinuteOf(d) + 58
    IN  JSDate(2027, 2, 1, 8 + (m \div 60), m % 60)

\* The start array of Sale.getCalendarEvent, the parser running on UK time.
StartOf(date) ==
    LET d == LocalFields(date)
    IN  <<d.year, d.month + 1, d.date, d.hours, d.minutes>>

\* Fixture.getCalendarEvents: one event for each valid sale, in order.
getCalendarEvents(f) ==
    LET valid == SelectSeq(f.sales, isValid)
    IN  [k \in 1..Len(valid) |->
            CalendarEvent(ReplaceAmp(f.opposition), f.venue, valid[k].description,
                          StartOf(valid[k].date))]

\* What find reads from one ticket card: the two teams and the kick-off (or
\* nothing, when the info block does not match), the match-location span, the
\* competition text and the league crest.
IsWomen(opposition) ==
    \/ includes(toLowerCase(opposition), <<"women">>)
    \/ includes(toLowerCase(opposition), <<"ladies">>)

CardOpposition(card) ==
    IF card.info[1].home = LiverpoolFC THEN card.info[1].away ELSE card.info[1].home

CardFixture(card) ==
    Fixture(card.href, CardOpposition(card),
            IF card.location # <<>> THEN card.location[1] ELSE "U",
            IF card.crest # <<>> THEN card.crest[1]
            ELSE IF card.text # <<>> THEN card.text[1] ELSE <<"Unknown">>,
            card.info[1].ko)

\* FixtureList.find on a non-empty html: the cards in page order up to the
\* first one whose info block does not match (that one throws), the women's
\* fixtures skipped.
RECURSIVE ListFind(_, _)
ListFind(cards, found) ==
    IF cards = <<>> THEN [threw |-> FALSE, fixtures |-> found]
    ELSE IF Head(cards).info = <<>> THEN [threw |-> TRUE, fixtures |-> found]
    ELSE IF IsWomen(CardOpposition(Head(cards))) THEN ListFind(Tail(cards), found)
    ELSE ListFind(Tail(cards), Append(found, CardFixture(Head(cards))))

\* FixtureList.hasChanged
hasChanged(list) ==
    \E k \in 1..Len(list) : list[k].changed /\ getActiveSaleCount(list[k]) > 0

\* Mutant: getChanges takes every fixture with an active sale.
RECURSIVE getChangesOfAll(_)
getChangesOfAll(list) ==
    IF list = <<>> THEN <<>>
    ELSE (IF getActiveSaleCount(Head(list)) > 0
          THEN getCalendarEvents(Head(list)) ELSE <<>>) \o getChangesOfAll(Tail(list))

\* FixtureList.getChanges
RECURSIVE getChanges(_)
getChanges(list) ==
    IF list = <<>> THEN <<>>
    ELSE (IF getActiveSaleCount(Head(list)) > 0 /\ Head(list).changed
          THEN getCalendarEvents(Head(list)) ELSE <<>>) \o getChanges(Tail(list))

NewFixtureList == [html |-> <<>>, fixtures |-> <<>>]

----------------------------------------------------------------------------
(* Email: construct, sendEvents, sendError *)

SUBJECT_SALES == "Latest LFC ticket sales dates"
SUBJECT_ERROR == "LFC Ticket Parser ERROR"

\* this.events, this.ics (undefined until construct has encoded a calendar)
\* and the messages handed to SMTP.
NewEmail == [events |-> <<>>, ics |-> <<>>, outbox |-> <<>>]

\* Email.send: the message reaches nodemailer, and the boolean it returns
\* (false from the catch, or without EMAIL_HOST) is kept with it.
send(em, message) == [em EXCEPT !.outbox = Append(@, message)]

sendError(em, text, accepted) ==
    send(em, [subject |-> SUBJECT_ERROR, body |-> text, accepted |-> accepted])

\* sendEvents on a non-empty this.events.
sendEvents(em, accepted) ==
    send(em, [subject |-> SUBJECT_SALES, events |-> em.events, accepted |-> accepted])

\* new Date(year, month - 1, day, hour, minute) of an event's start.
StartDate(start) == JSDate(start[1], start[2] - 1, start[3], start[4], start[5])

\* Mutant: an event that starts at the present minute is kept.
FutureOrNow(list, objects, present) ==
    {u \in 1..Len(list) : ~DateBefore(StartDate(objects[list[u]].start), present)}

\* The events construct keeps: those that start after the present moment.
Future(list, objects, present) ==
    {u \in 1..Len(list) : DateBefore(present, StartDate(objects[list[u]].start))}

\* The members of a set of positions, in increasing order.
Ascending(S) ==
    CHOOSE s \in [1..Cardinality(S) -> S] :
        \A i, j \in 1..Cardinality(S) : i < j => s[i] < s[j]

----------------------------------------------------------------------------
(* TicketParser.parse *)

MaxRuns == 3
MaxChanges == 1

NoPending == [put |-> <<>>, reset |-> <<>>]

\* parse's locals, with the loop position and the success flag of parseAll,
\* and the error on its way to a catch.
IdleParse ==
    [pc |-> "idle", persistable |-> FALSE, retry |-> <<>>, keys |-> <<>>,
     events |-> <<>>, restored |-> {}, success |-> FALSE, rejected |-> FALSE,
     f |-> 0, parsed |-> TRUE, error |-> <<>>]

InitialiseError ==
    "Error trying to initialise DB - The email should still send but may contain details already sent."
SendError == "Error trying to send LFC sales email"

RECURSIVE MergeAll(_, _, _)
MergeAll(retry, backups, b) ==
    IF b > Len(backups) - 1 THEN retry
    ELSE MergeAll(merge(retry, backups[b]), backups, b + 1)

\* The database variables are missing: the throw of the first try block is
\* caught, the error is emailed (not waited for) and the day's work follows
\* with no client.
BeginUnconfigured ==
    /\ parse.pc = "idle"
    /\ started < MaxRuns
    /\ \E accepted \in BOOLEAN : email' = sendError(email, InitialiseError, accepted)
    /\ parse' = [parse EXCEPT !.rejected = TRUE, !.pc = "main"]
    /\ started' = started + 1
    /\ UNCHANGED <<backupTable, clock, pending, site, fixtures, merging, call>>
    /\ UNCHANGED <<syncVars, mergeVars>>

\* client.init() and client.restore(), then the choice between resending
\* today's backup and the day's work.
Begin ==
    /\ parse.pc = "idle"
    /\ started < MaxRuns
    /\ \E persistable \in BOOLEAN, scanned \in BOOLEAN, items \in ScanOrders(backupTable) :
        \E n \in 0..Len(items) :
            LET backups == IF scanned /\ n = Len(items) THEN Restored(items, clock) ELSE <<>>
                last == Len(backups)
                retry == MergeAll(backups[last], backups, 1)
                keys == [b \in 1..last |-> getKey(backups[b])]
            IN  /\ backupTable' = IF scanned THEN AttemptsCounted(backupTable, items, n)
                                  ELSE backupTable
                /\ scanned \/ n = 0
                /\ IF last > 0
                   THEN parse' = [parse EXCEPT
                                    !.persistable = persistable,
                                    !.rejected = ~persistable,
                                    !.retry = <<retry>>,
                                    !.keys = keys,
                                    !.events = retry.events,
                                    !.restored = {items[b].Date : b \in 1..last},
                                    !.pc = IF isToday(retry, clock) THEN "retry" ELSE "main"]
                   ELSE parse' = [parse EXCEPT
                                    !.persistable = persistable,
                                    !.rejected = ~persistable \/ ~scanned \/ n < Len(items),
                                    !.pc = "main"]
    /\ started' = started + 1
    /\ UNCHANGED <<clock, pending, site, fixtures, email, merging, call>>
    /\ UNCHANGED <<syncVars, mergeVars>>

April10 == <<2027, 4, 10, 8, 15>>
February28 == <<2027, 2, 28, 8, 15>>

\* The events FixtureList.getChanges may hand over on a day.
ChangedEventUniverse ==
    {CalendarEvent(Chelsea, "H", MembersSale13, April10),
     CalendarEvent(Chelsea, "A", MembersSale, April10),
     CalendarEvent(Brighton, "H", MembersSale13, February28)}

\* The moments at which the parser is started.
Schedule ==
    <<JSDate(2027, 1, 28, 9, 0), JSDate(2027, 2, 1, 9, 0), JSDate(2027, 2, 29, 9, 0)>>

\* A throw inside the second try block, on its way to the catch.
Thrown(error) == [parse EXCEPT !.error = <<error>>, !.pc = "failed"]

\* From fixtures.hasChanged() to the test of events.length: the backup of
\* the changes (sent, not waited for), its key, the events to send.
Changed(changed, changes) ==
    LET backup == Backup(clock, changes)
        stored == changed /\ parse.persistable
        evs == (IF changed THEN changes ELSE <<>>)
                   \o (IF parse.retry # <<>> THEN parse.retry[1].events ELSE <<>>)
    IN  /\ pending' = IF stored
                      THEN [pending EXCEPT !.put = <<BackupItem(formatDate(clock), backup)>>]
                      ELSE pending
        /\ parse' = [parse EXCEPT
                       !.keys = IF stored THEN Append(@, getKey(backup)) ELSE @,
                       !.events = evs,
                       !.pc = IF Len(evs) > 0 THEN "email" ELSE "done"]

\* The day's work up to the email, by its outcome: download, find, parseAll
\* or a sync fails, or no fixture is found, or getChanges hands over changes.
Main ==
    /\ parse.pc = "main"
    /\ \E outcome \in {"failed", "none", "parsed"} :
        \E changes \in SeqsUpTo(ChangedEventUniverse, MaxChanges) :
            /\ outcome = "parsed" \/ changes = <<>>
            /\ CASE outcome = "failed" ->
                      /\ parse' = Thrown("Unable to retrieve fixtures")
                      /\ UNCHANGED pending
                 [] outcome = "none" ->
                      /\ parse' = [parse EXCEPT !.pc = "done"]
                      /\ UNCHANGED pending
                 [] outcome = "parsed" -> Changed(changes # <<>>, changes)
    /\ UNCHANGED <<backupTable, clock, started, site, fixtures, email, merging, call>>
    /\ UNCHANGED <<syncVars, mergeVars>>

\* fixtures.download(): the index page is asked of the site.
Download ==
    /\ parse.pc = "main"
    /\ fixtures' = [fixtures EXCEPT !.html = site.index]
    /\ site' = [site EXCEPT !.asked = Append(@, "index")]
    /\ parse' = IF Len(site.index) > 0 THEN [parse EXCEPT !.pc = "find"]
                ELSE Thrown("Unable to retrieve fixtures")
    /\ UNCHANGED <<backupTable, clock, started, pending, email, merging, call>>
    /\ UNCHANGED <<syncVars, mergeVars>>

\* fixtures.find(), and the entry into parseAll when a fixture was found.
Find ==
    /\ parse.pc = "find"
    /\ LET found == ListFind(fixtures.html[1], fixtures.fixtures)
       IN  /\ fixtures' = [fixtures EXCEPT !.fixtures = found.fixtures]
           /\ parse' = IF found.threw THEN Thrown("Invalid HTML format")
                       ELSE IF Len(found.fixtures) > 0
                            THEN [parse EXCEPT !.f = 0, !.parsed = TRUE, !.pc = "parseAll"]
                            ELSE [parse EXCEPT !.pc = "done"]
    /\ UNCHANGED <<backupTable, clock, started, pending, site, email, merging, call>>
    /\ UNCHANGED <<syncVars, mergeVars>>

\* parseAll, `await fixture.download()` of the next fixture: its page is
\* asked of the site.
ParseAllDownload ==
    /\ parse.pc = "parseAll"
    /\ parse.f < Len(fixtures.fixtures)
    /\ LET this == fixtures.fixtures[parse.f + 1]
           downloaded == FixtureDownload(this, site.pages[this.url])
       IN  /\ fixtures' = [fixtures EXCEPT !.fixtures[parse.f + 1] = downloaded]
           /\ site' = [site EXCEPT !.asked = Append(@, this.url)]
           /\ parse' = [parse EXCEPT !.parsed = @ /\ Len(downloaded.html) > 0,
                                     !.pc = "parseAllFind"]
    /\ UNCHANGED <<backupTable, clock, started, pending, email, merging, call>>
    /\ UNCHANGED <<syncVars, mergeVars>>

\* parseAll, the try around fixture.find(), and the end of the loop's turn.
ParseAllFind ==
    /\ parse.pc = "parseAllFind"
    /\ LET this == fixtures.fixtures[parse.f + 1]
       IN  IF FixtureFindThrows(this)
           THEN /\ parse' = [parse EXCEPT !.parsed = FALSE, !.f = @ + 1, !.pc = "parseAll"]
                /\ UNCHANGED fixtures
           ELSE /\ parse' = [parse EXCEPT !.f = @ + 1, !.pc = "parseAll"]
                /\ fixtures' = [fixtures EXCEPT !.fixtures[parse.f + 1] = FixtureFind(this)]
    /\ UNCHANGED <<backupTable, clock, started, pending, site, email, merging, call>>
    /\ UNCHANGED <<syncVars, mergeVars>>

\* parseAll returns; parse throws on a false and enters the sync loop when
\* there is a client.
ParseAllReturn ==
    /\ parse.pc = "parseAll"
    /\ parse.f = Len(fixtures.fixtures)
    /\ parse' = IF ~parse.parsed THEN Thrown("Unable to parse fixtures")
                ELSE [parse EXCEPT !.f = 0,
                                   !.pc = IF parse.persistable THEN "sync" ELSE "changes"]
    /\ UNCHANGED <<backupTable, clock, started, pending, site, fixtures, email, merging, call>>
    /\ UNCHANGED <<syncVars, mergeVars>>

\* The sync loop calls client.sync on the next fixture, or is over.
SyncNext ==
    /\ parse.pc = "sync"
    /\ pc = "off"
    /\ IF parse.f < Len(fixtures.fixtures)
       THEN /\ fixture' = fixtures.fixtures[parse.f + 1]
            /\ pc' = "start"
            /\ UNCHANGED parse
       ELSE /\ parse' = [parse EXCEPT !.pc = "changes"]
            /\ UNCHANGED <<fixture, pc>>
    /\ existing' = <<>>
    /\ readOk' = TRUE
    /\ requests' = <<>>
    /\ writeOk' = "none"
    /\ result' = "none"
    /\ UNCHANGED <<table, now>>
    /\ UNCHANGED <<backupTable, clock, started, pending, site, fixtures, email, merging, call>>
    /\ UNCHANGED mergeVars

\* `await client.sync(fixture)` settles: the fixture carries the changed
\* flag sync gave it; a rejection is thrown on.
SyncSettled ==
    /\ parse.pc = "sync"
    /\ pc = "done"
    /\ pc' = "off"
    /\ fixtures' = [fixtures EXCEPT !.fixtures[parse.f + 1] = fixture]
    /\ parse' = IF result = "threw" THEN Thrown("Unexpected token in JSON")
                ELSE [parse EXCEPT !.f = @ + 1]
    /\ UNCHANGED <<fixture, table, now, existing, readOk, requests, writeOk, result>>
    /\ UNCHANGED <<backupTable, clock, started, pending, site, email, merging, call>>
    /\ UNCHANGED mergeVars

\* fixtures.hasChanged() and getChanges() on the fixtures as they stand.
Changes ==
    /\ parse.pc = "changes"
    /\ Changed(hasChanged(fixtures.fixtures), getChanges(fixtures.fixtures))
    /\ UNCHANGED <<backupTable, clock, started, site, fixtures, email, merging, call>>
    /\ UNCHANGED <<syncVars, mergeVars>>

\* email.construct hands its events to removeDuplicates.
Construct ==
    /\ parse.pc \in {"retry", "email"}
    /\ heap' = parse.events
    /\ given' = parse.events
    /\ events' = [i \in 1..Len(parse.events) |-> i]
    /\ cleansed' = <<>>
    /\ e' = 0
    /\ rd' = "start"
    /\ parse' = [parse EXCEPT !.pc = IF @ = "retry" THEN "retryConstruct" ELSE "construct"]
    /\ UNCHANGED <<backupTable, clock, started, pending, site, fixtures, email, merging, call>>
    /\ UNCHANGED syncVars

\* The rest of construct: the events that start in the future are kept as
\* this.events, and ICS.createEvents encodes them (the response is kept as
\* this.ics) or answers with an error, which construct throws.  A throw on the retry path is caught by the first
\* try block: the error is emailed and the day's work follows.
ConstructFinish ==
    /\ parse.pc \in {"retryConstruct", "construct"}
    /\ rd \in {"done", "threw"}
    /\ \E encoded, accepted \in BOOLEAN :
        LET future == Ascending(Future(cleansed, heap, clock))
            kept == IF rd = "threw" THEN email
                    ELSE [email EXCEPT
                            !.events = [k \in 1..Len(future) |-> heap[cleansed[future[k]]]]]
            threw == rd = "threw" \/ ~encoded
        IN  /\ rd = "threw" => encoded
            /\ (parse.pc = "retryConstruct" /\ threw) \/ accepted
            /\ IF ~threw
               THEN /\ email' = [kept EXCEPT !.ics = <<[value |-> kept.events]>>]
                    /\ parse' = [parse EXCEPT !.pc = IF @ = "retryConstruct"
                                                     THEN "retrySend" ELSE "send"]
               ELSE IF parse.pc = "retryConstruct"
               THEN /\ email' = sendError(kept, InitialiseError, accepted)
                    /\ parse' = [parse EXCEPT !.pc = "main"]
               ELSE /\ email' = kept
                    /\ parse' = Thrown("ICS.createEvents")
    /\ UNCHANGED <<backupTable, clock, started, pending, site, fixtures, merging, call>>
    /\ UNCHANGED <<syncVars, mergeVars>>

\* sendEvents on the retry path, and the reset that is started and not
\* waited for; parse returns.
RetrySend ==
    /\ parse.pc = "retrySend"
    /\ \E accepted \in BOOLEAN :
        /\ email.events = <<>> => accepted
        /\ email' = IF email.events = <<>> THEN email ELSE sendEvents(email, accepted)
        /\ parse' = [parse EXCEPT !.success = accepted, !.pc = "done"]
        /\ pending' = IF accepted THEN [pending EXCEPT !.reset = parse.keys] ELSE pending
    /\ UNCHANGED <<backupTable, clock, started, site, fixtures, merging, call>>
    /\ UNCHANGED <<syncVars, mergeVars>>

\* sendEvents on the main path; the reset is waited for.
Send ==
    /\ parse.pc = "send"
    /\ \E accepted \in BOOLEAN :
        LET resets == accepted /\ parse.persistable /\ parse.keys # <<>>
        IN  /\ email.events = <<>> => accepted
            /\ email' = IF email.events = <<>> THEN email ELSE sendEvents(email, accepted)
            /\ parse' = [parse EXCEPT !.success = accepted,
                                      !.pc = IF resets THEN "reset" ELSE "done"]
            /\ pending' = IF resets THEN [pending EXCEPT !.reset = parse.keys] ELSE pending
    /\ UNCHANGED <<backupTable, clock, started, site, fixtures, merging, call>>
    /\ UNCHANGED <<syncVars, mergeVars>>

\* One turn of reset's loop: the delete of the next key resolves, or it
\* rejects and reset gives up.
ResetDelete ==
    /\ pending.reset # <<>>
    /\ \E resolved \in BOOLEAN :
        /\ backupTable' = IF resolved THEN DeleteItem(backupTable, Head(pending.reset))
                          ELSE backupTable
        /\ pending' = [pending EXCEPT !.reset = IF resolved THEN Tail(@) ELSE <<>>]
        /\ parse' = [parse EXCEPT
                       !.rejected = @ \/ ~resolved,
                       !.pc = IF @ = "reset" /\ pending'.reset = <<>> THEN "done" ELSE @]
    /\ UNCHANGED <<clock, started, site, fixtures, email, merging, call>>
    /\ UNCHANGED <<syncVars, mergeVars>>

\* The put that backup sent, which parse never waits for, resolves or rejects.
BackupSettle ==
    /\ pending.put # <<>>
    /\ \E resolved \in BOOLEAN :
        /\ backupTable' = IF resolved THEN PutItem(backupTable, pending.put[1])
                          ELSE backupTable
        /\ parse' = [parse EXCEPT !.rejected = @ \/ ~resolved]
    /\ pending' = [pending EXCEPT !.put = <<>>]
    /\ UNCHANGED <<clock, started, site, fixtures, email, merging, call>>
    /\ UNCHANGED <<syncVars, mergeVars>>

\* Mutant: the catch logs the error and sends nothing.
CatchSilently ==
    /\ parse.pc = "failed"
    /\ parse' = [parse EXCEPT !.pc = "done"]
    /\ UNCHANGED <<backupTable, clock, started, pending, site, fixtures, email, merging, call>>
    /\ UNCHANGED <<syncVars, mergeVars>>

\* The catch of the second try block: the error is emailed (not waited for;
\* send swallows its own failure) and parse returns.
Catch ==
    /\ parse.pc = "failed"
    /\ \E accepted \in BOOLEAN : email' = sendError(email, SendError, accepted)
    /\ parse' = [parse EXCEPT !.pc = "done"]
    /\ UNCHANGED <<backupTable, clock, started, pending, site, fixtures, merging, call>>
    /\ UNCHANGED <<syncVars, mergeVars>>

\* The process ends once nothing is in flight; the next start is at the same
\* moment of the schedule or a later one.
Exit ==
    /\ parse.pc = "done"
    /\ pending = NoPending
    /\ \E i, j \in 1..Len(Schedule) :
        /\ clock = Schedule[i]
        /\ j >= i
        /\ clock' = Schedule[j]
    /\ parse' = IdleParse
    /\ email' = NewEmail
    /\ heap' = <<>>
    /\ given' = <<>>
    /\ events' = <<>>
    /\ cleansed' = <<>>
    /\ e' = 0
    /\ rd' = "off"
    /\ UNCHANGED <<backupTable, started, pending, site, fixtures, merging, call>>
    /\ UNCHANGED syncVars

InitRun ==
    /\ backupTable = {}
    /\ clock = Schedule[1]
    /\ started = 0
    /\ parse = IdleParse
    /\ pending = NoPending
    /\ site = <<>>
    /\ fixtures = NewFixtureList
    /\ email = NewEmail
    /\ merging = <<>>
    /\ call = <<>>
    /\ InitMerge
    /\ InitSyncIdle

NextRun ==
    \/ BeginUnconfigured
    \/ Begin
    \/ Main
    \/ Construct
    \/ RemoveDuplicatesBegin
    \/ RemoveDuplicatesStep
    \/ RemoveDuplicatesReturn
    \/ ConstructFinish
    \/ RetrySend
    \/ Send
    \/ ResetDelete
    \/ BackupSettle
    \/ Catch
    \/ Exit

SpecRun == InitRun /\ [][NextRun]_vars

----------------------------------------------------------------------------
(* One run of the parser against the website: any short index page, any
   fixture pages, a stored fingerprint or none, a stored backup or none *)

PremierLeague == <<"Premier", " ", "League">>

BrightonUrl == "/tickets/tickets-availability/brighton-v-liverpool-fc"
WomenUrl == "/tickets/tickets-availability/liverpool-fc-women-v-chelsea-women"
BrokenUrl == "/tickets/tickets-availability/broken"

ChelseaCard ==
    [href |-> TheFixture.url,
     info |-> <<[home |-> LiverpoolFC, away |-> Chelsea, ko |-> TheFixture.ko]>>,
     location |-> <<"H">>, text |-> <<PremierLeague>>, crest |-> <<>>]

BrightonCard ==
    [href |-> BrightonUrl,
     info |-> <<[home |-> Brighton, away |-> LiverpoolFC, ko |-> TheFixture.ko]>>,
     location |-> <<"A">>, text |-> <<>>, crest |-> <<PremierLeague>>]

WomenCard ==
    [href |-> WomenUrl,
     info |-> <<[home |-> LiverpoolFC \o <<" ", "Women">>,
                 away |-> Chelsea \o <<" ", "Women">>, ko |-> TheFixture.ko]>>,
     location |-> <<"H">>, text |-> <<>>, crest |-> <<>>]

\* A card whose info block the pattern does not match.
BrokenCard ==
    [href |-> BrokenUrl, info |-> <<>>, location |-> <<>>, text |-> <<>>, crest |-> <<>>]

CardUniverse == {ChelseaCard, BrightonCard, WomenCard, BrokenCard}

EndedSale == <<Sale(MembersSale, ENDED, Minute(1))>>
ComingSale == <<Sale(MembersSale, PENDING, Minute(3))>>
TwoSales == <<Sale(MembersSale13, PENDING, Minute(2)), Sale(MembersSale, PENDING, Minute(3))>>

Page(home, away, sales) == <<[title |-> [home |-> home, away |-> away], sales |-> sales]>>

\* What the site may serve under a fixture's url: nothing, the page of
\* another fixture, or the fixture's page with its sales.
ChelseaPages ==
    {<<>>, Page(LiverpoolFC, Brighton, ComingSale)}
        \cup {Page(LiverpoolFC, Chelsea, sales) : sales \in {EndedSale, ComingSale, TwoSales}}

BrightonPages ==
    {<<>>} \cup {Page(Brighton, LiverpoolFC, sales) : sales \in {EndedSale, ComingSale}}

Listed(cards, card) == \E k \in 1..Len(cards) : cards[k] = card

SiteUniverse ==
    {[index |-> <<>>, asked |-> <<>>,
      pages |-> [url \in {TheFixture.url, BrightonUrl, WomenUrl, BrokenUrl} |-> <<>>]]}
    \cup
    {[index |-> <<cards>>, asked |-> <<>>,
      pages |-> [url \in {TheFixture.url, BrightonUrl, WomenUrl, BrokenUrl} |->
                    IF url = TheFixture.url THEN chelsea
                    ELSE IF url = BrightonUrl THEN brighton ELSE <<>>]] :
        cards \in SeqsUpTo(CardUniverse, MaxFixtures),
        chelsea \in ChelseaPages, brighton \in BrightonPages}

\* The site as the run finds it: no page kept for a fixture the index does
\* not list.
Sites ==
    {s \in SiteUniverse :
        /\ s.pages[TheFixture.url] # <<>> => (s.index # <<>> /\ Listed(s.index[1], ChelseaCard))
        /\ s.pages[BrightonUrl] # <<>> => (s.index # <<>> /\ Listed(s.index[1], BrightonCard))}

\* The fingerprint an earlier run stored for the Chelsea fixture.
StoredComingSale ==
    [malformed |-> FALSE, id |-> TheFixture.id, match |-> getMatch(TheFixture),
     sales |-> ValidSalesJson(ComingSale)]

\* The backup an earlier run left, on the day before or earlier today.
LeftBackups ==
    {BackupItem(formatDate(d), Backup(d, <<ev>>)) :
        d \in {Schedule[1], Schedule[2]},
        ev \in {CalendarEvent(Chelsea, "H", MembersSale13, April10),
                CalendarEvent(Brighton, "H", MembersSale13, February28)}}

InitParse ==
    /\ site \in Sites
    /\ fixtures = NewFixtureList
    /\ email = NewEmail
    /\ merging = <<>>
    /\ call = <<>>
    /\ backupTable \in {{}} \cup {{item} : item \in LeftBackups}
    /\ clock = Schedule[2]
    /\ started = 0
    /\ parse = IdleParse
    /\ pending = NoPending
    /\ fixture = TheFixture
    /\ table \in {{}} \cup {{[Fixture |-> TheFixture.id, Sales |-> <<j>>]} :
                               j \in {StoredComingSale, MalformedJson}}
    /\ now = Minute(2)
    /\ pc = "off"
    /\ existing = <<>>
    /\ readOk = TRUE
    /\ requests = <<>>
    /\ writeOk = "none"
    /\ result = "none"
    /\ InitMerge

NextParse ==
    \/ BeginUnconfigured
    \/ Begin
    \/ Download
    \/ Find
    \/ ParseAllDownload
    \/ ParseAllFind
    \/ ParseAllReturn
    \/ SyncNext
    \/ SyncGet
    \/ SyncCompare
    \/ PutSettle
    \/ UpdateSettle
    \/ SyncSettled
    \/ Changes
    \/ Construct
    \/ RemoveDuplicatesBegin
    \/ RemoveDuplicatesStep
    \/ RemoveDuplicatesReturn
    \/ ConstructFinish
    \/ RetrySend
    \/ Send
    \/ ResetDelete
    \/ BackupSettle
    \/ Catch

SpecParse == InitParse /\ [][NextParse]_vars

----------------------------------------------------------------------------
(* Backup.merge on event objects: any two short event arrays, which may
   share objects or hold equal events in different objects *)

MaxBackupEvents == 2

\* `this.events.includes(backup.events[e])`: the very object is in the array.
Holds(refs, obj) == \E i \in 1..Len(refs) : refs[i] = obj

\* One turn of merge's loop.
MergeTurn ==
    /\ merging # <<>>
    /\ merging.pc = "merge"
    /\ merging.e < Len(merging.backup.events)
    /\ LET obj == merging.backup.events[merging.e + 1]
       IN  merging' = [merging EXCEPT
                         !.this.events = IF Holds(@, obj) THEN @ ELSE Append(@, obj),
                         !.e = @ + 1]
    /\ UNCHANGED <<backupTable, clock, started, parse, pending, site, fixtures, email, call>>
    /\ UNCHANGED <<syncVars, mergeVars>>

\* The loop ends and merge returns.
MergeReturn ==
    /\ merging # <<>>
    /\ merging.pc = "merge"
    /\ merging.e = Len(merging.backup.events)
    /\ merging' = [merging EXCEPT !.pc = "done"]
    /\ UNCHANGED <<backupTable, clock, started, parse, pending, site, fixtures, email, call>>
    /\ UNCHANGED <<syncVars, mergeVars>>

BackupEventUniverse ==
    {CalendarEvent(Chelsea, "H", MembersSale13, April10),
     CalendarEvent(Brighton, "H", MembersSale13, February28)}

\* The heap holds the event objects; each of the two Backups holds an array
\* of references to them, every object in one array at least.  The events
\* this Backup starts with are kept in `given`.
InitBackups ==
    /\ \E n \in 0..MaxEvents :
        \E objects \in [1..n -> BackupEventUniverse] :
            \E mine, theirs \in SeqsUpTo(1..n, MaxBackupEvents) :
                /\ \A o \in 1..n : Holds(mine, o) \/ Holds(theirs, o)
                /\ heap = objects
                /\ given = [i \in 1..Len(mine) |-> objects[mine[i]]]
                /\ merging = [pc |-> "merge", e |-> 0,
                              this |-> [date |-> Schedule[2], events |-> mine],
                              backup |-> [date |-> Schedule[1], events |-> theirs]]
    /\ call = <<>>
    /\ events = <<>>
    /\ cleansed = <<>>
    /\ e = 0
    /\ rd = "off"
    /\ backupTable = {}
    /\ clock = Schedule[2]
    /\ started = 0
    /\ parse = [pc |-> "off"]
    /\ pending = <<>>
    /\ site = <<>>
    /\ fixtures = <<>>
    /\ email = <<>>
    /\ InitSyncIdle

NextBackups == MergeTurn \/ MergeReturn

SpecBackups == InitBackups /\ [][NextBackups]_vars

----------------------------------------------------------------------------
(* The backup keys: backups stored on some days and restored on a later one *)

MaxBackups == 2

KeyDays ==
    {JSDate(ymd[1], ymd[2], ymd[3], 9, 0) :
        ymd \in {<<2026, 11, 31>>, <<2027, 0, 5>>, <<2027, 0, 31>>, <<2027, 1, 28>>,
                 <<2027, 2, 1>>, <<2027, 2, 29>>, <<2027, 9, 10>>, <<2027, 10, 30>>,
                 <<2028, 1, 29>>, <<2028, 2, 31>>}}

\* DynamoDB.backup: the put under formatDate(new Date()) resolves, or it
\* rejects and backup returns false.
KeyBackup ==
    /\ parse.pc = "keys"
    /\ Cardinality(backupTable) < MaxBackups
    /\ \E resolved \in BOOLEAN :
        backupTable' = IF resolved
                       THEN PutItem(backupTable, BackupItem(formatDate(clock), Backup(clock, <<>>)))
                       ELSE backupTable
    /\ UNCHANGED <<clock, started, parse, pending, site, fixtures, email, merging, call>>
    /\ UNCHANGED <<syncVars, mergeVars>>

\* Days pass between one run and the next.
KeyLater ==
    /\ parse.pc = "keys"
    /\ \E day \in KeyDays :
        /\ DateBefore(clock, day)
        /\ clock' = day
    /\ UNCHANGED <<backupTable, started, parse, pending, site, fixtures, email, merging, call>>
    /\ UNCHANGED <<syncVars, mergeVars>>

\* DynamoDB.restore: the scan answers, each item is parsed into a Backup and
\* its Attempts updated; a rejected update makes restore return [].
KeyRestore ==
    /\ parse.pc = "keys"
    /\ backupTable # {}
    /\ \E items \in ScanOrders(backupTable) :
        \E n \in 0..Len(items) :
            /\ backupTable' = AttemptsCounted(backupTable, items, n)
            /\ parse' = [pc |-> "restored", items |-> items,
                         backups |-> IF n = Len(items) THEN Restored(items, clock) ELSE <<>>]
    /\ UNCHANGED <<clock, started, pending, site, fixtures, email, merging, call>>
    /\ UNCHANGED <<syncVars, mergeVars>>

InitKeys ==
    /\ clock \in KeyDays
    /\ backupTable = {}
    /\ started = 0
    /\ parse = [pc |-> "keys", items |-> <<>>, backups |-> <<>>]
    /\ pending = <<>>
    /\ site = <<>>
    /\ fixtures = <<>>
    /\ email = <<>>
    /\ merging = <<>>
    /\ call = <<>>
    /\ InitMerge
    /\ InitSyncIdle

NextKeys == KeyBackup \/ KeyLater \/ KeyRestore

SpecKeys == InitKeys /\ [][NextKeys]_vars

----------------------------------------------------------------------------
(* Email.construct called on any short list of events, the empty one too *)

\* A sale of the day before, one of the present minute and two to come.
ConstructEventUniverse ==
    {CalendarEvent(Brighton, "H", MembersSale13, February28),
     CalendarEvent(Chelsea, "H", MembersSale, <<2027, 3, 1, 9, 0>>),
     CalendarEvent(Chelsea, "H", MembersSale13, April10),
     CalendarEvent(Brighton, "H", MembersSale13, April10)}

InitConstruct ==
    /\ \E list \in SeqsUpTo(ConstructEventUniverse, MaxEvents) :
        parse = [IdleParse EXCEPT !.events = list, !.pc = "email"]
    /\ backupTable = {}
    /\ clock = Schedule[2]
    /\ started = 1
    /\ pending = NoPending
    /\ site = <<>>
    /\ fixtures = NewFixtureList
    /\ email = NewEmail
    /\ merging = <<>>
    /\ call = <<>>
    /\ InitMerge
    /\ InitSyncIdle

NextConstruct ==
    \/ Construct
    \/ RemoveDuplicatesBegin
    \/ RemoveDuplicatesStep
    \/ RemoveDuplicatesReturn
    \/ ConstructFinish

SpecConstruct == InitConstruct /\ [][NextConstruct]_vars

----------------------------------------------------------------------------
(* A Sale of any description, status and date, and its four questions *)

\* toLocaleDateString('en-GB', day, short month, year, hour, 2-digit minute)
\* with ' at ' replaced by a blank: the local fields of the date, as read.
DateText(date) ==
    IF date = InvalidDate THEN <<"Invalid Date">>
    ELSE LET d == LocalFields(date)
         IN  <<d.date, d.month, d.year, d.hours, d.minutes>>

\* Sale.getTitle
SaleGetTitle(sale) ==
    IF ~isValid(sale) THEN <<>>
    ELSE <<[date |-> DateText(sale.date), description |-> sale.description]>>

\* Sale.getCalendarEvent; the getters of an invalid Date give NaN.
SaleGetCalendarEvent(sale) ==
    IF ~isValid(sale) THEN <<>>
    ELSE <<[productId |-> "lfctickets/ics",
            title |-> sale.description,
            start |-> IF sale.date = InvalidDate
                      THEN <<"NaN", "NaN", "NaN", "NaN", "NaN">>
                      ELSE StartOf(sale.date),
            duration |-> [minutes |-> 60],
            busyStatus |-> "BUSY"]>>

SaleDescriptions ==
    {MembersSale, MembersSale13, LocalSale, AmbulantSale, HospitalitySale,
     <<"Members", " ", "Sale", " ", "and", " ", "Hospitality">>,
     <<"Additional", " ", "Local", " ", "Sale">>}

SaleDates == {NullDate, InvalidDate, Minute(1), Minute(3)}

\* new Sale(description, status, date), nothing asked of it yet: an answer
\* is <<>> until the method has been called, then <<what it returned>>.
InitSale ==
    /\ \E description \in SaleDescriptions, status \in {PENDING, AVAILABLE, ENDED},
          date \in SaleDates :
        call = [sale |-> Sale(description, status, date),
                valid |-> <<>>, title |-> <<>>, json |-> <<>>, event |-> <<>>]
    /\ InitMerge
    /\ InitSyncIdle
    /\ backupTable = {}
    /\ clock = <<>>
    /\ started = 0
    /\ parse = [pc |-> "off"]
    /\ pending = <<>>
    /\ site = <<>>
    /\ fixtures = <<>>
    /\ email = <<>>
    /\ merging = <<>>

AskIsValid ==
    /\ call.valid = <<>>
    /\ call' = [call EXCEPT !.valid = <<isValid(call.sale)>>]
    /\ UNCHANGED <<backupTable, clock, started, parse, pending, site, fixtures, email, merging>>
    /\ UNCHANGED <<syncVars, mergeVars>>

AskGetTitle ==
    /\ call.title = <<>>
    /\ call' = [call EXCEPT !.title = <<SaleGetTitle(call.sale)>>]
    /\ UNCHANGED <<backupTable, clock, started, parse, pending, site, fixtures, email, merging>>
    /\ UNCHANGED <<syncVars, mergeVars>>

AskGetJson ==
    /\ call.json = <<>>
    /\ call' = [call EXCEPT !.json = <<SaleGetJson(call.sale)>>]
    /\ UNCHANGED <<backupTable, clock, started, parse, pending, site, fixtures, email, merging>>
    /\ UNCHANGED <<syncVars, mergeVars>>

AskGetCalendarEvent ==
    /\ call.event = <<>>
    /\ call' = [call EXCEPT !.event = <<SaleGetCalendarEvent(call.sale)>>]
    /\ UNCHANGED <<backupTable, clock, started, parse, pending, site, fixtures, email, merging>>
    /\ UNCHANGED <<syncVars, mergeVars>>

NextSale == AskIsValid \/ AskGetTitle \/ AskGetJson \/ AskGetCalendarEvent

SpecSale == InitSale /\ [][NextSale]_vars

----------------------------------------------------------------------------
(* Two Fixtures constructed from any two sets of details *)

BrightonAmp == <<"Brighton", " ", "&amp;", " ", "Hove", " ", "Albion">>
BrightonHove == <<"Brighton", " ", "Hove", " ", "Albion">>
BrightonHyphen == <<"Brighton", "-", "Hove", " ", "Albion">>

FixtureDetails ==
    [opposition : {Chelsea, Brighton, BrightonAmp, BrightonHove, BrightonHyphen},
     venue : {"H", "A"},
     competition : {<<"Premier", " ", "League">>, <<"FA", " ", "Cup">>},
     ko : {[year |-> 2026, month |-> 7], [year |-> 2027, month |-> 4],
           [year |-> 2027, month |-> 7]}]

InitIds ==
    /\ \E first, second \in FixtureDetails :
        call = [details |-> <<first, second>>, made |-> <<>>]
    /\ InitMerge
    /\ InitSyncIdle
    /\ backupTable = {}
    /\ clock = <<>>
    /\ started = 0
    /\ parse = [pc |-> "off"]
    /\ pending = <<>>
    /\ site = <<>>
    /\ fixtures = <<>>
    /\ email = <<>>
    /\ merging = <<>>

\* new Fixture(url, opposition, venue, competition, ko), once for each.
NewFixtures ==
    /\ call.made = <<>>
    /\ call' = [call EXCEPT !.made =
                   [k \in 1..2 |->
                       Fixture(TheFixture.url, call.details[k].opposition,
                               call.details[k].venue, call.details[k].competition,
                               call.details[k].ko)]]
    /\ UNCHANGED <<backupTable, clock, started, parse, pending, site, fixtures, email, merging>>
    /\ UNCHANGED <<syncVars, mergeVars>>

NextIds == NewFixtures

SpecIds == InitIds /\ [][NextIds]_vars

----------------------------------------------------------------------------
(* Fixture.find called more than once on one Fixture *)

MaxFinds == 2

\* The detail pages served under the fixture's url: its own page with up to
\* MaxLiveSales rows, and another fixture's page.
ReparsePages ==
    {Page(LiverpoolFC, Chelsea, sales) : sales \in SeqsUpTo(LiveSaleUniverse, MaxLiveSales)}
        \cup {Page(LiverpoolFC, Brighton, ComingSale)}

\* `call.first` holds getJson() and getActiveSaleCount() as they were after
\* the first find().
InitReparse ==
    /\ \E served \in ReparsePages :
        call = [fixture |-> FixtureDownload(TheFixture, served), finds |-> 0,
                first |-> <<>>]
    /\ InitMerge
    /\ InitSyncIdle
    /\ backupTable = {}
    /\ clock = <<>>
    /\ started = 0
    /\ parse = [pc |-> "off"]
    /\ pending = <<>>
    /\ site = <<>>
    /\ fixtures = <<>>
    /\ email = <<>>
    /\ merging = <<>>

\* fixture.find() on the html it holds; a throw leaves the Fixture as it was.
FindAgain ==
    /\ call.finds < MaxFinds
    /\ LET f == IF FixtureFindThrows(call.fixture) THEN call.fixture
                ELSE FixtureFind(call.fixture)
       IN  call' = [fixture |-> f, finds |-> call.finds + 1,
                    first |-> IF call.finds = 0
                              THEN <<[json |-> FixtureGetJson(f),
                                      count |-> getActiveSaleCount(f)]>>
                              ELSE call.first]
    /\ UNCHANGED <<backupTable, clock, started, parse, pending, site, fixtures, email, merging>>
    /\ UNCHANGED <<syncVars, mergeVars>>

NextReparse == FindAgain

SpecReparse == InitReparse /\ [][NextReparse]_vars

----------------------------------------------------------------------------
(* Client.sync called again for the same Fixture, as the next run does when
   the page still shows the same sales *)

MaxSyncs == 2

\* The moments of the later sync: at once, or after every date of the
\* universe has passed.
LaterMoments == {Minute(2), Minute(4)}

\* `call` counts the syncs and keeps what the one before resolved to and
\* how many write commands had been sent when this one began.
InitResync ==
    /\ fixture \in {[TheFixture EXCEPT !.sales = ss] :
                        ss \in SeqsUpTo(LiveSaleUniverse, MaxLiveSales)}
    /\ table \in {{}} \cup {{[Fixture |-> TheFixture.id, Sales |-> <<j>>]} :
                               j \in StoredJsonUniverse}
    /\ now = Minute(2)
    /\ pc = "start"
    /\ existing = <<>>
    /\ readOk = TRUE
    /\ requests = <<>>
    /\ writeOk = "none"
    /\ result = "none"
    /\ call = [syncs |-> 1, before |-> "none", sent |-> 0]
    /\ InitMerge
    /\ backupTable = {}
    /\ clock = <<>>
    /\ started = 0
    /\ parse = [pc |-> "off"]
    /\ pending = <<>>
    /\ site = <<>>
    /\ fixtures = <<>>
    /\ email = <<>>
    /\ merging = <<>>

\* client.sync(fixture) once more: the same Fixture object, its sales as
\* they were, against the table as the sync before left it.
SyncAgain ==
    /\ pc = "done"
    /\ call.syncs < MaxSyncs
    /\ call' = [syncs |-> call.syncs + 1, before |-> result, sent |-> Len(requests)]
    /\ now' \in LaterMoments
    /\ pc' = "start"
    /\ existing' = <<>>
    /\ readOk' = TRUE
    /\ writeOk' = "none"
    /\ result' = "none"
    /\ UNCHANGED <<fixture, table, requests>>
    /\ UNCHANGED mergeVars
    /\ UNCHANGED <<backupTable, clock, started, parse, pending, site, fixtures, email, merging>>

NextResync == SyncGet \/ SyncCompare \/ PutSettle \/ UpdateSettle \/ SyncAgain

SpecResync == InitResync /\ [][NextResync]_vars

----------------------------------------------------------------------------
(* Fixture.find: the credits a sale asks for.  The word replacement looks
   inside words, so these texts are sequences of single characters. *)

\* 'recorded ', 'all ', and what may end the threshold: '+', ' or more', ' of'.
Recorded == <<"r", "e", "c", "o", "r", "d", "e", "d", " ">>
AllBlank == <<"a", "l", "l", " ">>
Plus == <<"+">>
OrMore == <<" ", "o", "r", " ", "m", "o", "r", "e">>
OfBlank == <<" ", "o", "f">>

words ==
    <<<<"o", "n", "e">>,
      <<"t", "w", "o">>,
      <<"t", "h", "r", "e", "e">>,
      <<"f", "o", "u", "r">>,
      <<"f", "i", "v", "e">>,
      <<"s", "i", "x">>,
      <<"s", "e", "v", "e", "n">>,
      <<"e", "i", "g", "h", "t">>,
      <<"n", "i", "n", "e">>,
      <<"t", "e", "n">>,
      <<"e", "l", "e", "v", "e", "n">>,
      <<"t", "w", "e", "l", "v", "e">>,
      <<"t", "h", "i", "r", "t", "e", "e", "n">>,
      <<"f", "o", "u", "r", "t", "e", "e", "n">>,
      <<"f", "i", "f", "t", "e", "e", "n">>,
      <<"s", "i", "x", "t", "e", "e", "n">>,
      <<"s", "e", "v", "e", "n", "t", "e", "e", "n">>,
      <<"e", "i", "g", "h", "t", "e", "e", "n">>,
      <<"n", "i", "n", "e", "t", "e", "e", "n">>>>

EndsThreshold(text, p) == At(text, p, Plus) \/ At(text, p, OrMore) \/ At(text, p, OfBlank)

\* How many times 'all ' stands in a row from position p.
RECURSIVE AllsAt(_, _)
AllsAt(text, p) ==
    IF At(text, p, AllBlank) THEN 1 + AllsAt(text, p + Len(AllBlank)) ELSE 0

\* match[2].match(/recorded (all )*(.+?)((\+)|( or more)|( of))/): the
\* leftmost 'recorded ', as many 'all ' as still leave a match, and then the
\* shortest text that one of the endings follows.  <<>> is null, otherwise
\* <<group 2>>.
MatchPrereqs(text) ==
    LET from(i, k) == i + Len(Recorded) + k * Len(AllBlank)
        found == {m \in (1..Len(text)) \X (0..Len(text)) \X (1..Len(text)) :
                     /\ At(text, m[1], Recorded)
                     /\ m[2] <= AllsAt(text, m[1] + Len(Recorded))
                     /\ EndsThreshold(text, from(m[1], m[2]) + m[3])}
        first == CHOOSE m \in found :
                     \A o \in found :
                         \/ m[1] < o[1]
                         \/ m[1] = o[1] /\ m[2] > o[2]
                         \/ m[1] = o[1] /\ m[2] = o[2] /\ m[3] <= o[3]
    IN  IF found = {} THEN <<>>
        ELSE <<SubSeq(text, from(first[1], first[2]),
                      from(first[1], first[2]) + first[3] - 1)>>

\* /^d+$/ : one or more letters d and nothing else.
MatchesOnlyDs(text) == text # <<>> /\ \A i \in 1..Len(text) : text[i] = "d"

\* String.replace(pattern, replacement) with a string pattern: the first
\* occurrence only.
replace(text, pattern, replacement) ==
    LET at == {i \in 1..Len(text) : At(text, i, pattern)}
    IN  IF at = {} THEN text
        ELSE SubSeq(text, 1, Min(at) - 1) \o replacement
                 \o SubSeq(text, Min(at) + Len(pattern), Len(text))

\* for ( let w = 0; w < 19; w++ ) prereqs[2] = prereqs[2].replace(words[w], String(w+1))
RECURSIVE ReplaceWords(_, _)
ReplaceWords(text, w) ==
    IF w > Len(words) THEN text
    ELSE ReplaceWords(replace(text, words[w], NumberToString(w)), w + 1)

RECURSIVE TrimStart(_)
TrimStart(text) ==
    IF text # <<>> /\ Head(text) = " " THEN TrimStart(Tail(text)) ELSE text

RECURSIVE LeadingDigits(_)
LeadingDigits(text) ==
    IF text # <<>> /\ IsDigit(Head(text)) THEN <<Head(text)>> \o LeadingDigits(Tail(text))
    ELSE <<>>

\* parseInt(text): the number its leading digits spell, NaN (<<>>) without any.
ParseIntOrNaN(text) ==
    LET digits == LeadingDigits(TrimStart(text))
    IN  IF digits = <<>> THEN <<>> ELSE <<parseInt(digits)>>

\* `credits` as find computes it from the prereqs span: 0 without a match.
Credits(prereqs) ==
    LET match == MatchPrereqs(prereqs)
    IN  IF match = <<>> THEN <<0>>
        ELSE IF ~MatchesOnlyDs(match[1]) THEN ParseIntOrNaN(ReplaceWords(match[1], 1))
        ELSE ParseIntOrNaN(match[1])

\* (credits > 0 ? ' (' + credits + '+)' : ''), false for NaN.
CreditsSuffix(credits) ==
    IF credits # <<>> /\ credits[1] > 0
    THEN <<" ", "(">> \o NumberToString(credits[1]) \o <<"+", ")">>
    ELSE <<>>

\* The sale names of the rows, as the description takes them over.
SaleNames == {<<"M", "e", "m", "b", "e", "r", "s", " ", "S", "a", "l", "e">>, <<"S", "T", " ", "H", "o", "l", "d", "e", "r", "s", " ", "a", "n", "d", " ", "M", "e", "m", "b", "e", "r", "s", " ", "S", "a", "l", "e">>}

\* What follows the threshold in the span.
ThresholdEndings == {Plus, OrMore \o <<" ", "c", "r", "e", "d", "i", "t", "s">>, OfBlank \o <<"t", "h", "e", " ", "f", "o", "l", "l", "o", "w", "i", "n", "g", " ", "g", "a", "m", "e", "s">>}

\* The prereqs span of a row whose sale asks for n credits, the threshold
\* written as the English word or in digits, after 'recorded ' or
\* 'recorded all '.
PrereqsTexts(n) ==
    {<<"M", "e", "m", "b", "e", "r", "s", " ", "w", "h", "o", " ", "h", "a", "v", "e", " ">> \o Recorded \o all \o threshold \o ending :
        all \in {<<>>, AllBlank},
        threshold \in {words[n], NumberToString(n)},
        ending \in ThresholdEndings}

\* `call.made` is <<>> until find has built the row's Sale.
InitCredits ==
    /\ \E n \in 1..Len(words) : \E text \in PrereqsTexts(n) : \E name \in SaleNames :
        call = [n |-> n, salename |-> name, prereqs |-> text, made |-> <<>>]
    /\ InitMerge
    /\ InitSyncIdle
    /\ backupTable = {}
    /\ clock = <<>>
    /\ started = 0
    /\ parse = [pc |-> "off"]
    /\ pending = <<>>
    /\ site = <<>>
    /\ fixtures = <<>>
    /\ email = <<>>
    /\ merging = <<>>

\* One turn of find's loop, as far as the description.
FindDescription ==
    /\ call.made = <<>>
    /\ LET credits == Credits(call.prereqs)
       IN  call' = [call EXCEPT !.made =
                       <<[credits |-> credits,
                          description |-> call.salename \o CreditsSuffix(credits)]>>]
    /\ UNCHANGED <<backupTable, clock, started, parse, pending, site, fixtures, email, merging>>
    /\ UNCHANGED <<syncVars, mergeVars>>

NextCredits == FindDescription

SpecCredits == InitCredits /\ [][NextCredits]_vars

----------------------------------------------------------------------------
(* The 12-hour clock readings: the kick-off on the index page and the sale
   time on a detail page.  Hour, minutes and am/pm are character texts. *)

\* Date.setHours and Date.setMinutes: an hour past 23 rolls over into the
\* next day, minutes past 59 into the next hour.
setHours(d, h) ==
    IF h < 24 THEN [d EXCEPT !.hours = h]
    ELSE [MakeDay(d, d.year, d.month, d.date + (h \div 24)) EXCEPT !.hours = h % 24]

setMinutes(d, m) ==
    IF m < 60 THEN [d EXCEPT !.minutes = m]
    ELSE [setHours(d, d.hours + (m \div 60)) EXCEPT !.minutes = m % 60]

\* new Date(text) of a date text that names day, month and year: the start
\* of that day.
NewDay(text) == JSDate(text.year, text.month, text.date, 0, 0)

Pm == <<"p", "m">>
Am == <<"a", "m">>

\* parseInt(hour) + (ampm == 'pm' ? 12 : 0)
Hours(hour, ampm) == parseInt(hour) + (IF ampm = Pm THEN 12 ELSE 0)

\* FixtureList.find: ko from info[3] (day), info[4]:info[5] and info[6].
KickOff(info) ==
    setMinutes(setHours(NewDay(info.g3), Hours(info.g4, info.g6)), parseInt(info.g5))

\* Fixture.find: the sale's date from the groups of the row's match; <<>> is
\* a group that took no part (undefined), and the result <<>> is null.
SaleDate(match) ==
    IF match.g4 # <<>>
    THEN <<setMinutes(setHours(NewDay(match.g4[1]), Hours(match.g5, match.g7)),
                      parseInt(match.g6))>>
    ELSE IF match.g8 # <<>>
    THEN <<setMinutes(setHours(NewDay(match.g11[1]), Hours(match.g8, match.g10)),
                      IF match.g6 # <<>> THEN parseInt(match.g6) ELSE 0)>>
    ELSE <<>>

\* The groups of a row with the inline 'when available' clause, and of a
\* row with the 'Buy ... from' clause and nothing inline.
WhenAvailableMatch(day, hour, minutes, ampm) ==
    [g4 |-> <<day>>, g5 |-> hour, g6 |-> minutes, g7 |-> ampm,
     g8 |-> <<>>, g9 |-> <<>>, g10 |-> <<>>, g11 |-> <<>>]

BuyFromMatch(day, hour, minutes, ampm) ==
    [g4 |-> <<>>, g5 |-> <<>>, g6 |-> <<>>, g7 |-> <<>>,
     g8 |-> hour, g9 |-> minutes, g10 |-> ampm, g11 |-> <<day>>]

InfoMatch(day, hour, minutes, ampm) ==
    [g3 |-> day, g4 |-> hour, g5 |-> minutes, g6 |-> ampm]

\* The days, hours and minutes the pages state.
ClockDays ==
    {[year |-> 2027, month |-> 1, date |-> 28], [year |-> 2027, month |-> 2, date |-> 1],
     [year |-> 2027, month |-> 11, date |-> 31]}

ClockHours == {NumberToString(h) : h \in 1..12}

ClockMinutes == {<<"0", "0">>, <<"1", "5">>, <<"3", "0">>}

\* `call.parsed` is <<>> until the reading has been parsed.
InitClock ==
    /\ \E where \in {"index", "whenavailable", "buyfrom"} :
        \E day \in ClockDays, hour \in ClockHours, minutes \in ClockMinutes,
           ampm \in {Am, Pm} :
            call = [where |-> where, day |-> day, hour |-> hour, minutes |-> minutes,
                    ampm |-> ampm, parsed |-> <<>>]
    /\ InitMerge
    /\ InitSyncIdle
    /\ backupTable = {}
    /\ clock = <<>>
    /\ started = 0
    /\ parse = [pc |-> "off"]
    /\ pending = <<>>
    /\ site = <<>>
    /\ fixtures = <<>>
    /\ email = <<>>
    /\ merging = <<>>

\* The reading is parsed where it stands.
ParseClock ==
    /\ call.parsed = <<>>
    /\ call' = [call EXCEPT !.parsed =
                   CASE call.where = "index" ->
                            <<KickOff(InfoMatch(call.day, call.hour, call.minutes, call.ampm))>>
                     [] call.where = "whenavailable" ->
                            SaleDate(WhenAvailableMatch(call.day, call.hour, call.minutes,
                                                        call.ampm))
                     [] call.where = "buyfrom" ->
                            SaleDate(BuyFromMatch(call.day, call.hour, call.minutes,
                                                  call.ampm))]
    /\ UNCHANGED <<backupTable, clock, started, parse, pending, site, fixtures, email, merging>>
    /\ UNCHANGED <<syncVars, mergeVars>>

NextClock == ParseClock

SpecClock == InitClock /\ [][NextClock]_vars

----------------------------------------------------------------------------
(* Properties of Client.sync and Fixture.equals, under SpecSync *)

HasValidSale == \E i \in 1..Len(fixture.sales) : isValid(fixture.sales[i])

\* The store answered the read with nothing under the fixture's key.
ReadNothing == readOk /\ pc # "start" /\ existing = <<>>

\* The store answered the read with a fingerprint JSON.parse accepts.
ReadFingerprint ==
    readOk /\ pc # "start" /\ existing # <<>> /\ ~existing[1].malformed

\* Sale equality between a live sale and a stored {description, date}:
\* same description, live status pending, same minute.
SameSale(live, stored) ==
    /\ live.description = stored.description
    /\ live.status = "PENDING"
    /\ live.date >= 0
    /\ stored.date >= 0
    /\ live.date \div (TicksPerSecond * SecondsPerMinute)
           = stored.date \div SecondsPerMinute

ValidLive(i) ==
    LET sale == fixture.sales[i]
    IN  /\ sale.status = "PENDING"
        /\ sale.date # NullDate
        /\ sale.description \notin {LocalSale, AmbulantSale, HospitalitySale}

ValidLiveUnmatched ==
    \E i \in 1..Len(fixture.sales) :
        /\ ValidLive(i)
        /\ \A j \in 1..Len(existing[1].sales) :
               ~SameSale(fixture.sales[i], existing[1].sales[j])

StoredUnmatched(j) ==
    \A i \in 1..Len(fixture.sales) :
        ~SameSale(fixture.sales[i], existing[1].sales[j])

StoredInFuture(j) ==
    /\ existing[1].sales[j].date >= 0
    /\ now < existing[1].sales[j].date * TicksPerSecond

StoredUnmatchedInFuture ==
    \E j \in 1..Len(existing[1].sales) : StoredUnmatched(j) /\ StoredInFuture(j)

\* C1: when the store holds nothing for the fixture, a fixture with a valid
\* sale ends marked changed with exactly one put, carrying its fingerprint,
\* sent; a fixture with no valid sale ends marked unchanged with no write sent.
C1_NewFixture ==
    (pc = "done" /\ ReadNothing) =>
        IF HasValidSale
        THEN /\ fixture.changed
             /\ Len(requests) = 1
             /\ requests[1].op = "put"
             /\ requests[1].key = fixture.id
             /\ requests[1].json # <<>>
             /\ requests[1].json = FixtureGetJson(fixture)
        ELSE ~fixture.changed /\ requests = <<>>

C1_Witness ==
    /\ pc = "done" /\ ReadNothing /\ HasValidSale
    /\ Len(requests) = 1 /\ requests[1].op = "put" /\ writeOk = "ok"
    /\ Len(fixture.sales) = 2

C3_UnmatchedLiveSaleDiffers ==
    ReadFingerprint =>
        /\ ValidLiveUnmatched => ~FixtureEquals(fixture, existing[1], now)
        /\ (~FixtureEquals(fixture, existing[1], now) /\ ~StoredUnmatchedInFuture)
               => ValidLiveUnmatched

C3_Witness ==
    /\ pc = "done" /\ ReadFingerprint
    /\ ValidLiveUnmatched
    /\ ~StoredUnmatchedInFuture
    /\ existing[1].sales # <<>>
    /\ \E i \in 1..Len(fixture.sales) : ~ValidLive(i)
    /\ fixture.changed

\* C4: when every valid live sale is matched in storage, Fixture.equals is
\* false exactly when some stored sale has no equal live sale and a date
\* still in the future; an unmatched stored sale whose date has passed does
\* not count.
C4_ExpiryTolerant ==
    (ReadFingerprint /\ ~ValidLiveUnmatched) =>
        (FixtureEquals(fixture, existing[1], now) <=> ~StoredUnmatchedInFuture)

C4_Witness ==
    /\ pc = "done" /\ ReadFingerprint /\ HasValidSale /\ ~ValidLiveUnmatched
    /\ \E j \in 1..Len(existing[1].sales) : StoredUnmatched(j) /\ ~StoredInFuture(j)
    /\ ~fixture.changed
    /\ result = "true"

C6_WriteFailureKeepsChanged ==
    (pc = "done" /\ writeOk = "failed") =>
        result = "false" /\ fixture.changed /\ Len(requests) = 1

C6_Witness ==
    /\ pc = "done" /\ writeOk = "failed" /\ requests # <<>>
    /\ requests[1].op = "update"

\* C8: a sync of a fixture with no valid sale sends no put or update and
\* leaves the fixture marked unchanged, whatever the store holds and whether
\* or not the read succeeds.
C8_ZeroActiveNeverPersisted ==
    (pc = "done" /\ ~HasValidSale) => (requests = <<>> /\ ~fixture.changed)

----------------------------------------------------------------------------
(* Properties of Email.removeDuplicates, under SpecSales *)

Titles(list, objects) == [u \in 1..Len(list) |-> objects[list[u]].title]

\* The event about to be tested is byte-identical, as handed over, to an
\* earlier event of the list.
DuplicateNext ==
    /\ rd = "loop"
    /\ e < Len(events)
    /\ \E k \in 1..e : given[k] = given[e + 1]

\* C9: an event byte-identical to an earlier event of the list leaves the
\* consolidated output as it was: no entry added, no title altered.
C9_DuplicateCollapse ==
    [][DuplicateNext =>
          /\ rd' = "loop"
          /\ Len(cleansed') = Len(cleansed)
          /\ Titles(cleansed', heap') = Titles(cleansed, heap)]_vars

Tiers == {<<>>, <<"1", "3", "+">>, <<"3", "+">>}

TieredSale(tier) ==
    IF tier = <<>> THEN MembersSale ELSE MembersSale \o <<" ", "(">> \o tier \o <<")">>

CriterionOf(tier) == IF tier = <<>> THEN <<"General">> ELSE tier

BulkTitle(x, y, t1, t2) ==
    <<"Bulk", " ", "Sale", " ", "(">> \o x \o <<",", " ">> \o y
        \o <<")", " ", ":", " ">> \o MembersSale \o <<" ", "(">>
        \o (IF CriterionOf(t1) = CriterionOf(t2) THEN CriterionOf(t1)
            ELSE CriterionOf(t1) \o <<",", " ">> \o CriterionOf(t2))
        \o <<")">>

\* C10: two home sale events with different oppositions X, Y and the same
\* start consolidate to one event titled "Bulk Sale (X, Y) : Members Sale
\* (<criteria>)", the criteria being the two events' tiers, each once, with
\* General for an event without a tier, in either order of the two events.
C10_BulkSaleTitle ==
    \A x, y \in {Chelsea, Brighton} : \A t1, t2 \in Tiers :
        ( /\ rd = "done"
          /\ x # y
          /\ given = <<CalendarEvent(x, "H", TieredSale(t1), Start1),
                       CalendarEvent(y, "H", TieredSale(t2), Start1)>> )
        => /\ Len(cleansed) = 1
           /\ heap[cleansed[1]].title = BulkTitle(x, y, t1, t2)

\* The position of the ':' that parts the oppositions from the sale in a title.
ColonAt(title) == Min({i \in 1..Len(title) : title[i] = ":"} \cup {Len(title) + 1})

\* The criterion is an entry of the title's criteria list: it stands after
\* the ':' between '(' or ', ' and ',' or ')'.
ListsCriterion(title, criterion) ==
    \E i \in (ColonAt(title) + 1)..Len(title) :
        /\ At(title, i, criterion)
        /\ title[i - 1] \in {"(", " "}
        /\ i + Len(criterion) <= Len(title)
        /\ title[i + Len(criterion)] \in {",", ")"}

\* C28: every credit criterion carried by an event handed to the
\* consolidator is an entry of the criteria list in the title of the
\* consolidated event with that start.
C28_MergedTitleListsEveryCriterion ==
    rd = "done" =>
        \A g \in 1..Len(given) : \A u \in 1..Len(cleansed) :
            LET criterion == extractOpposition(given[g].title).criteria
            IN  (criterion # <<>> /\ heap[cleansed[u]].start = given[g].start)
                    => ListsCriterion(heap[cleansed[u]].title, criterion)

----------------------------------------------------------------------------
(* Properties of the backups across runs, under SpecRun *)

\* The item is in the table and the step takes it out: its key is not
\* there afterwards.
BackupRemoved(item) ==
    /\ item \in backupTable
    /\ \A i \in backupTable' : i.Date # item.Date

\* sendEvents resolved to true in this run, for an email built from every
\* event of the item.
EmailedThisRun(item) ==
    /\ parse.success
    /\ \A k \in 1..Len(item.Events) : \E g \in 1..Len(given) : given[g] = item.Events[k]

\* The run is over, its email went out, everything it asked of the store
\* was done and nothing is still in flight.
RunEndedEmailed ==
    /\ parse.pc = "done"
    /\ parse.success
    /\ ~parse.rejected
    /\ pending = NoPending

\* C7: a backup item leaves the table only in a run whose email, carrying the
\* item's events, was sent successfully; and once such a run is over, no key
\* of a backup restored for it is in the table. Stated for the runs in which
\* the store did all it was asked.
C7_BackupRetainedUntilEmailed ==
    [][ /\ \A item \in backupTable :
              (BackupRemoved(item) /\ ~parse.rejected) => EmailedThisRun(item)
        /\ RunEndedEmailed' =>
              \A date \in parse'.restored : \A i \in backupTable' : i.Date # date ]_vars

----------------------------------------------------------------------------
(* Properties of merged registrations, under SpecRegistrations *)

\* The members of a list, each once, in the order of their first appearance.
RECURSIVE FirstSeen(_)
FirstSeen(list) ==
    IF list = <<>> THEN <<>>
    ELSE LET before == FirstSeen(SubSeq(list, 1, Len(list) - 1))
             last == list[Len(list)]
         IN  IF \E k \in 1..Len(before) : before[k] = last THEN before
             ELSE Append(before, last)

RECURSIVE JoinWithCommas(_)
JoinWithCommas(list) ==
    IF list = <<>> THEN <<>>
    ELSE IF Len(list) = 1 THEN list[1]
    ELSE list[1] \o <<",", " ">> \o JoinWithCommas(Tail(list))

\* The opposition and the tier a registration event of the universe was made of.
OppositionOf(event) ==
    CHOOSE o \in {Chelsea, Brighton} :
        \E t \in RegistrationTiers : event = CalendarEvent(o, "H", TieredRegistration(t), Start1)

TierOf(event) ==
    CHOOSE t \in RegistrationTiers :
        \E o \in {Chelsea, Brighton} : event = CalendarEvent(o, "H", TieredRegistration(t), Start1)

RegistrationTitle(list) ==
    <<"Registration", " ", "(">>
        \o JoinWithCommas(FirstSeen([k \in 1..Len(list) |-> OppositionOf(list[k])]))
        \o <<")", " ", ":", " ", "Members", " ", "Ticket", " ", "Sale", " ", "(">>
        \o JoinWithCommas(FirstSeen([k \in 1..Len(list) |-> CriterionOf(TierOf(list[k]))]))
        \o <<")">>

\* C11: two or more registration events of home fixtures with the same start,
\* no two of them identical, consolidate to one event titled
\* "Registration (<oppositions>) : Members Ticket Sale (<criteria>)", each
\* distinct opposition and each distinct criterion (a tier, or General for
\* none) once, in first-seen order.
C11_RegistrationTitle ==
    ( /\ rd = "done"
      /\ Len(given) >= 2
      /\ \A i, j \in 1..Len(given) : given[i] = given[j] => i = j )
    => /\ Len(cleansed) = 1
       /\ heap[cleansed[1]].title = RegistrationTitle(given)

\* C18: Client.sync settles to a boolean whatever the store answers (no item,
\* a fingerprint that parses or one that does not, a rejected read, a
\* rejected write): it never throws, and the boolean is true exactly when the
\* read resolved and the write, if one was sent, resolved.
C18_SyncResolvesBoolean ==
    pc = "done" =>
        /\ result \in {"true", "false"}
        /\ (result = "true") <=> (readOk /\ writeOk # "failed")

----------------------------------------------------------------------------
(* Properties of one run of the parser, under SpecParse *)

\* The minutes from the turn of the year 0 to a start array, every month
\* taken as 31 days: a scale on which calendar order is numeric order.
StartStamp(start) ==
    ((((start[1] * 12 + (start[2] - 1)) * 31 + start[3]) * 24) + start[4]) * 60 + start[5]

\* The same scale for the present moment (its month counts from 0).
PresentStamp ==
    ((((clock.year * 12 + clock.month) * 31 + clock.date) * 24) + clock.hours) * 60
        + clock.minutes

Kept(event) == \E k \in 1..Len(email.events) : email.events[k] = event

\* C12: whatever Email.construct keeps starts strictly after the moment of
\* construction, and once construct has finished the kept events are exactly
\* the consolidated events that start strictly after it: an event that starts
\* at that minute or before is left out, a scraped one as a restored one.
C12_KeptEventsInFuture ==
    /\ \A k \in 1..Len(email.events) : StartStamp(email.events[k].start) > PresentStamp
    /\ parse.pc \in {"retrySend", "send"} =>
           \A u \in 1..Len(cleansed) :
               Kept(heap[cleansed[u]]) <=> StartStamp(heap[cleansed[u]].start) > PresentStamp

\* construct has kept an event and left out both a scraped sale that starts
\* at the present minute and a restored event of the day before.
C12_Witness ==
    /\ parse.pc = "send"
    /\ parse.retry # <<>>
    /\ Len(email.events) >= 1
    /\ \E u \in 1..Len(cleansed) : StartStamp(heap[cleansed[u]].start) = PresentStamp
    /\ \E u \in 1..Len(cleansed) : heap[cleansed[u]].start = February28

\* A sale the parser reports: pending, dated, and not a local, ambulant or
\* hospitality sale.
Reported(sale) ==
    /\ sale.status = "PENDING"
    /\ sale.date # NullDate
    /\ sale.description \notin {LocalSale, AmbulantSale, HospitalitySale}

ReportedSales(f) == SelectSeq(f.sales, Reported)

\* The events of the changed fixtures with a reported sale, fixture after
\* fixture from position k on, one event for each reported sale.
RECURSIVE ChangedSaleEvents(_, _)
ChangedSaleEvents(list, k) ==
    IF k > Len(list) THEN <<>>
    ELSE LET f == list[k]
             sales == ReportedSales(f)
         IN  (IF f.changed /\ Len(sales) > 0
              THEN [i \in 1..Len(sales) |->
                       CalendarEvent(f.opposition, f.venue, sales[i].description,
                                     StartOf(sales[i].date))]
              ELSE <<>>) \o ChangedSaleEvents(list, k + 1)

\* C13: getChanges returns, in page order, one event for each valid sale of
\* every fixture that is marked changed and has an active sale, and nothing
\* else; hasChanged is true exactly when getChanges is not empty; and these
\* are the events parse takes as the day's changes.
C13_ChangesOfChangedFixtures ==
    /\ getChanges(fixtures.fixtures) = ChangedSaleEvents(fixtures.fixtures, 1)
    /\ hasChanged(fixtures.fixtures) <=> getChanges(fixtures.fixtures) # <<>>
    /\ parse.pc = "email" =>
           parse.events = ChangedSaleEvents(fixtures.fixtures, 1)
                              \o (IF parse.retry # <<>> THEN parse.retry[1].events ELSE <<>>)

\* Two fixtures with a valid sale each, the first found unchanged by its
\* sync and the second changed, and getChanges has handed over the second's.
C13_Witness ==
    /\ parse.pc = "email"
    /\ Len(fixtures.fixtures) = 2
    /\ ~fixtures.fixtures[1].changed /\ Len(ReportedSales(fixtures.fixtures[1])) = 1
    /\ fixtures.fixtures[2].changed /\ Len(ReportedSales(fixtures.fixtures[2])) = 1
    /\ Len(parse.events) = 1

\* The site would serve every page of a healthy scrape: an index page whose
\* cards all match, and for every men's fixture its own page.
Mens(card) ==
    card.info # <<>> /\ \A w \in {"Women", "Ladies"} :
        \A k \in 1..Len(CardOpposition(card)) : CardOpposition(card)[k] # w

OwnPage(card) ==
    /\ site.pages[card.href] # <<>>
    /\ site.pages[card.href][1].title.home = card.info[1].home
    /\ site.pages[card.href][1].title.away = card.info[1].away

SiteHealthy ==
    /\ site.index # <<>>
    /\ \A k \in 1..Len(site.index[1]) :
           /\ site.index[1][k].info # <<>>
           /\ Mens(site.index[1][k]) => OwnPage(site.index[1][k])

PageSales(card) ==
    LET page == site.pages[card.href][1]
    IN  {page.sales[i] : i \in 1..Len(page.sales)}

\* The starts of the sales the site shows as pending and still to come.
ComingStarts ==
    IF site.index = <<>> THEN {}
    ELSE LET cards == {site.index[1][k] : k \in 1..Len(site.index[1])}
             shown == UNION {PageSales(card) : card \in {c \in cards : Mens(c) /\ OwnPage(c)}}
         IN  {StartOf(sale.date) :
                 sale \in {x \in shown :
                              Reported(x) /\ StartStamp(StartOf(x.date)) > PresentStamp}}

SalesEmails == {m \in 1..Len(email.outbox) : email.outbox[m].subject = SUBJECT_SALES}

\* C14: a run without a database (not configured, or client.init() returned
\* false) ends without a sync and with every fixture still marked changed,
\* and when the site serves a healthy scrape and the calendar encodes, it
\* hands SMTP a sales email that carries every pending sale still to come.
C14_NoDatabaseEmailsAll ==
    (parse.pc = "done" /\ ~parse.persistable) =>
        /\ pc = "off" /\ requests = <<>> /\ result = "none"
        /\ \A k \in 1..Len(fixtures.fixtures) : fixtures.fixtures[k].changed
        /\ (SiteHealthy /\ parse.error = <<>> /\ ComingStarts # {}) =>
               \E m \in SalesEmails :
                   \A start \in ComingStarts :
                       \E k \in 1..Len(email.outbox[m].events) :
                           email.outbox[m].events[k].start = start

Served(f) ==
    /\ site.pages[f.url] # <<>>
    /\ site.pages[f.url][1].title =
           IF f.venue = "A" THEN [home |-> f.opposition, away |-> LiverpoolFC]
           ELSE [home |-> LiverpoolFC, away |-> f.opposition]

\* C16: when the index page gave fixtures and the detail page of one of them
\* failed to download or parse, the run is not aborted for it: parse throws
\* nothing on account of the fixtures, and when another fixture shows a
\* pending sale still to come and nothing else failed, a sales email is
\* handed to SMTP in the same run.
C16_FixtureFailureIsolated ==
    (parse.pc = "done" /\ ~parse.parsed) =>
        /\ parse.error # <<"Unable to parse fixtures">>
        /\ (parse.error = <<>> /\ ~parse.persistable /\ ComingStarts # {}) => SalesEmails # {}

\* C17: parseAll asks the site for the fixtures' pages one at a time in the
\* order of the index page, the page of the next only once find has run on
\* the one before, throws nothing, and its success flag (which it returns
\* after the last fixture) is true exactly when every fixture so far had its
\* own page served and parsed.
C17_ParseAllSequential ==
    parse.pc \in {"parseAll", "parseAllFind"} =>
        LET turns == parse.f + (IF parse.pc = "parseAllFind" THEN 1 ELSE 0)
        IN  /\ parse.error = <<>>
            /\ Tail(site.asked) = [k \in 1..turns |-> fixtures.fixtures[k].url]
            /\ \A k \in (parse.f + 1)..Len(fixtures.fixtures) :
                   fixtures.fixtures[k].sales = <<>>
            /\ parse.pc = "parseAll" =>
                   (parse.parsed <=> \A k \in 1..parse.f : Served(fixtures.fixtures[k]))

\* parseAll is about to return false: the first fixture's page failed, and
\* the second was still downloaded and parsed, its sales found.
C17_Witness ==
    /\ parse.pc = "parseAll"
    /\ parse.f = 2
    /\ Len(fixtures.fixtures) = 2
    /\ ~parse.parsed
    /\ ~Served(fixtures.fixtures[1])
    /\ Served(fixtures.fixtures[2])
    /\ fixtures.fixtures[2].sales # <<>>

----------------------------------------------------------------------------
(* Properties of Backup.merge, under SpecBackups *)

Identical(x, y) ==
    /\ x.title = y.title
    /\ x.start = y.start
    /\ x.duration = y.duration
    /\ x.busyStatus = y.busyStatus

HeldIdentical(list, event) == \E i \in 1..Len(list) : Identical(list[i], event)

\* The events of `theirs` appended to `mine`, each unless mine already holds
\* an identical one, those appended before it counted.
RECURSIVE MergedCounting(_, _)
MergedCounting(mine, theirs) ==
    IF theirs = <<>> THEN mine
    ELSE MergedCounting(IF HeldIdentical(mine, Head(theirs)) THEN mine
                        ELSE Append(mine, Head(theirs)),
                        Tail(theirs))

\* The same, only the events mine held at the start counted.
RECURSIVE NotHeld(_, _)
NotHeld(mine, theirs) ==
    IF theirs = <<>> THEN <<>>
    ELSE (IF HeldIdentical(mine, Head(theirs)) THEN <<>> ELSE <<Head(theirs)>>)
             \o NotHeld(mine, Tail(theirs))

EventsOf(refs) == [i \in 1..Len(refs) |-> heap[refs[i]]]

\* C19: after a.merge(b), a's events are the events a had, followed by
\* exactly the events of b that are not identical (title, start, duration,
\* busy flag) to an event a already holds, whether or not equal events are
\* one object.  "Already holds" is taken either way: with or without the
\* events the same merge has appended.
C19_MergeSkipsIdentical ==
    (merging.pc = "done") =>
        \/ EventsOf(merging.this.events)
               = MergedCounting(given, EventsOf(merging.backup.events))
        \/ EventsOf(merging.this.events)
               = given \o NotHeld(given, EventsOf(merging.backup.events))

----------------------------------------------------------------------------
(* Properties of the backup keys, under SpecKeys *)

\* The decimal digits of n, padded with zeros to a width.
Digits(n, width) ==
    [i \in 1..width |-> DigitChars[((n \div (10 ^ (width - i))) % 10) + 1]]

\* C20: the key of a date is its year, month and day as YYYYMMDD, month and
\* day padded with a zero, and a Backup restored from an item has the key the
\* item is stored under, whatever the day restore runs on.
C20_KeyRoundTrip ==
    /\ formatDate(clock) = Digits(clock.year, 4) \o Digits(clock.month + 1, 2)
                               \o Digits(clock.date, 2)
    /\ parse.pc = "restored" =>
           \A b \in 1..Len(parse.backups) : getKey(parse.backups[b]) = parse.items[b].Date

----------------------------------------------------------------------------
(* Properties of Email.construct, under SpecConstruct *)

\* C21: construct called with no event at all ends with no event kept and
\* without a call of ICS.createEvents: no response of the encoder is kept as
\* this.ics and no error of the encoder is thrown.
C21_EmptyConstructSkipsEncoder ==
    (parse.pc \in {"send", "failed"} /\ given = <<>>) =>
        /\ email.events = <<>>
        /\ email.ics = <<>>
        /\ parse.error = <<>>

----------------------------------------------------------------------------
(* Properties of Sale, under SpecSale *)

\* A sale the calendar takes: pending, dated, not a local sale, not for
\* ambulant seating, not hospitality.
Calendarworthy(sale) ==
    /\ sale.status = "PENDING"
    /\ sale.date # NullDate
    /\ ~(Len(sale.description) >= 1 /\ sale.description[1] = "Local")
    /\ \A k \in 1..Len(sale.description) :
           sale.description[k] \notin {"ambulant", "Hospitality"}

\* C22: isValid answers true exactly for a pending, dated sale whose
\* description neither starts with 'Local' nor contains 'ambulant' or
\* 'Hospitality'; getTitle, getJson and getCalendarEvent answer null exactly
\* when isValid answers false.
C22_ValidIffCalendarworthy ==
    /\ call.valid # <<>> => (call.valid[1] <=> Calendarworthy(call.sale))
    /\ call.title # <<>> => (call.title[1] = <<>> <=> ~Calendarworthy(call.sale))
    /\ call.json # <<>> => (call.json[1] = <<>> <=> ~Calendarworthy(call.sale))
    /\ call.event # <<>> => (call.event[1] = <<>> <=> ~Calendarworthy(call.sale))

\* A pending, dated sale that mentions Hospitality after other words has
\* been asked all four questions: invalid, and null three times.
C22_Witness ==
    /\ call.sale = Sale(<<"Members", " ", "Sale", " ", "and", " ", "Hospitality">>,
                        PENDING, Minute(3))
    /\ call.valid = <<FALSE>>
    /\ call.title = <<<<>>>>
    /\ call.json = <<<<>>>>
    /\ call.event = <<<<>>>>

----------------------------------------------------------------------------
(* Properties of Fixture.id, under SpecIds *)

\* The first year of the season a kick-off falls in (the season turns in
\* June).
SeasonOf(ko) == IF ko.month < 5 THEN ko.year - 1 ELSE ko.year

SameCombination(x, y) ==
    /\ SeasonOf(x.ko) = SeasonOf(y.ko)
    /\ x.opposition = y.opposition
    /\ x.venue = y.venue
    /\ x.competition = y.competition

\* C23: the ids of two fixtures are the same when they have the same season,
\* opposition, venue and competition, whatever their kick-off times, and
\* different when they differ in any of the four.
C23_IdStableAndUnique ==
    call.made # <<>> =>
        (call.made[1].id = call.made[2].id
            <=> SameCombination(call.details[1], call.details[2]))

----------------------------------------------------------------------------
(* Properties of a repeated Fixture.find, under SpecReparse *)

\* C24: once find() has parsed the detail page, every later find() of the
\* same content on the same Fixture leaves getJson() and
\* getActiveSaleCount() as the first find() left them.
C24_ReparseIdempotent ==
    call.finds >= 1 =>
        /\ FixtureGetJson(call.fixture) = call.first[1].json
        /\ getActiveSaleCount(call.fixture) = call.first[1].count

----------------------------------------------------------------------------
(* Properties of the backups over several runs, under SpecRun *)

StillFuture(event) == DateBefore(clock, StartDate(event.start))

InSomeBackup(event) ==
    \E item \in backupTable : \E k \in 1..Len(item.Events) : item.Events[k] = event

\* The run is over with nothing in flight, the store did all it was asked
\* (so every backup was restored and every fixture synced), and no email of
\* the run's events was sent successfully.
RunEndedUnsent ==
    /\ parse.pc = "done"
    /\ pending = NoPending
    /\ ~parse.rejected
    /\ ~parse.success

\* C25: at the end of a run, every still-future event that the run's sync
\* recorded as changed or that the run restored from a backup, and that no
\* successful email has carried, is held by some backup item of the store.
C25_NoChangeLost ==
    RunEndedUnsent =>
        \A k \in 1..Len(parse.events) :
            StillFuture(parse.events[k]) => InSomeBackup(parse.events[k])

\* The run pushed the key of a backup of its own: it detected changes with
\* persistence available and started the backup write.
BackupStarted == Len(parse.keys) > Cardinality(parse.restored)

\* C27: in a run that started a backup of today's changes and whose email
\* was sent, once the put and the deletes have all completed (none
\* rejected), the store holds no backup item under today's key.
C27_NoBackupOfTodayRemains ==
    (RunEndedEmailed /\ parse.persistable /\ BackupStarted) =>
        \A item \in backupTable : item.Date # formatDate(clock)

----------------------------------------------------------------------------
(* Properties of a repeated Client.sync, under SpecResync *)

\* C26: when sync returned true for a fixture with an active sale, the next
\* sync of the same fixture with the same sales, its read answered, ends
\* with changed = false and without a put or an update.
C26_ResyncIdempotent ==
    (/\ call.syncs > 1
     /\ call.before = "true"
     /\ HasValidSale
     /\ readOk
     /\ pc = "done") =>
        /\ fixture.changed = FALSE
        /\ Len(requests) = call.sent

----------------------------------------------------------------------------
(* Properties of the credits find reads from a row, under SpecCredits *)

\* C29: for every n in 1..19, the threshold written as the English word for
\* n and written as the digits of n both give credits = n, and the sale
\* description ends with ' (n+)'.
C29_CreditsNormalised ==
    call.made # <<>> =>
        /\ call.made[1].credits = <<call.n>>
        /\ call.made[1].description
               = call.salename \o <<" ", "(">> \o NumberToString(call.n) \o <<"+", ")">>

----------------------------------------------------------------------------
(* Properties of the parsed clock readings, under SpecClock *)

\* The hour of the 24-hour clock that 'h am/pm' names.
HourOfDay(h, ampm) ==
    IF h = 12 THEN (IF ampm = Am THEN 0 ELSE 12)
    ELSE IF ampm = Pm THEN h + 12 ELSE h

\* C30: a reading 'h:mm am/pm' with h in 1..12, on the index page or on a
\* detail page (inline or after 'Buy ... from'), is parsed to the stated
\* day, the hour of the 24-hour clock it names and the stated minutes.
C30_TwelveHourClock ==
    call.parsed # <<>> =>
        call.parsed[1] = JSDate(call.day.year, call.day.month, call.day.date,
                                HourOfDay(parseInt(call.hour), call.ampm),
                                parseInt(call.minutes))

============================================================================
